---- MODULE Spec2Model ----
(***************************************************************************)
(* HOA reserve planning: the native engine (schedule expansion, forecast   *)
(* recurrence, funding fraction) and the values the emitted spreadsheet    *)
(* formulas evaluate to.                                                   *)
(*                                                                         *)
(* Numbers.  The program computes in floats; the model computes exactly.   *)
(* Money amounts and rates are integers.  A quotient is kept as the pair   *)
(* <<numerator, denominator>>; a pair whose denominator is 0 records a     *)
(* division by zero (Python's ZeroDivisionError, Excel's #DIV/0!).         *)
(* The inflation base (1 + inflation_rate) is the square of an integer     *)
(* root, so that the mid-year exponent (+0.5) stays exact: the exponent    *)
(* is counted in half years.                                               *)
(*                                                                         *)
(* A value that may be absent (Python None, an empty cell) is <<>> when    *)
(* absent and <<v>> when present.                                          *)
(***************************************************************************)
EXTENDS Integers, Sequences, FiniteSets, TLC

VARIABLES
    inputs,             \* model.Inputs
    components,         \* List[Component]
    contributions,      \* Dict[int, float], a function on the years it holds
    pc,                 \* position of the build
    idx,                \* loop index of the running loop
    year,               \* expand_schedule: the while loop's year
    years,              \* expand_schedule: years of the current component
    schedule,           \* List[ScheduleItem]
    schedule_expenses,  \* Dict[int, float] of expenses_by_year
    begin_balance,      \* compute_forecast: the running balance
    rows,               \* List[ForecastRow]
    expected_rows,      \* _compute_audit_expected: one list per year
    sheet_rows,         \* the Forecast sheet's cells A..J, evaluated
    flags,              \* the Forecast sheet's audit flag cells, evaluated
    native_fraction,    \* column offset -> fraction of _fully_funded_balance
    formula_fraction,   \* column offset -> fraction of the Funding cell
    components_csv,     \* the data rows of components.csv, as read
    contributions_csv,  \* the scenario's contributions file, as read
    errors,             \* validate_scenario: List[str]
    warnings,           \* validate_scenario: List[str]
    raised,             \* the exception that ended the call, "" for none
    saved,              \* build_workbook: the workbook file was written
    coverage_expected,  \* row offset -> coverage window of the native sum
    coverage_sheet,     \* row offset -> coverage range of the emitted formula
    forecast_sheet,     \* the Forecast sheet: header row and audit cells
    checks_sheet,       \* the Checks sheet: the rows appended
    first_components,   \* the list given to the first of two expansions
    first_schedule      \* the schedule returned by the first expansion

vars == <<inputs, components, contributions, pc, idx, year, years, schedule,
          schedule_expenses, begin_balance, rows, expected_rows, sheet_rows,
          flags, native_fraction, formula_fraction, components_csv,
          contributions_csv, errors, warnings, raised, saved,
          coverage_expected, coverage_sheet, forecast_sheet, checks_sheet,
          first_components, first_schedule>>

validation_vars ==
    <<components_csv, contributions_csv, errors, warnings, raised, saved>>

coverage_vars == <<coverage_expected, coverage_sheet>>

----------------------------------------------------------------------------
(* Bounds and input sets *)

MaxYears == 4
MaxComponents == 2
MaxInterval == 3
MaxComponentsRows == 3
StartingYear == 2025

None == <<>>
Some(v) == <<v>>

----------------------------------------------------------------------------
(* Arithmetic *)

Abs(x) == IF x < 0 THEN -x ELSE x

Min(a, b) == IF a <= b THEN a ELSE b

\* a / b: the quotient as a pair; b = 0 records the division by zero
Div(a, b) == <<a, b>>

DivByZero(q) == q[2] = 0

\* Faulty variants of CeilDiv: floor instead of ceiling; one cycle too many
CeilDivFloor(a, b) == a \div b

CeilDivPlusOne(a, b) == (a \div b) + 1

\* math.ceil(a / b) for b > 0
CeilDiv(a, b) == IF a % b = 0 THEN a \div b ELSE (a \div b) + 1

\* Excel MOD(a, b) for b > 0
Mod(a, b) == a % b

RECURSIVE Pow(_, _)
Pow(b, e) == IF e <= 0 THEN 1 ELSE b * Pow(b, e - 1)

\* Equality and order of quotients with non-zero denominators
QEq(p, q) == p[1] * q[2] = q[1] * p[2]

QSign(q) == IF q[2] < 0 THEN <<-q[1], -q[2]>> ELSE q

QGt(p, q) == QSign(p)[1] * QSign(q)[2] > QSign(q)[1] * QSign(p)[2]

RECURSIVE Gcd(_, _)
Gcd(a, b) == IF b = 0 THEN a ELSE Gcd(b, a % b)

\* A quotient in lowest terms; a zero denominator stays
Norm(q) ==
    IF q[2] = 0 THEN <<q[1], 0>>
    ELSE LET g == Gcd(Abs(q[1]), Abs(q[2]))
         IN  QSign(<<q[1] \div g, q[2] \div g>>)

QAdd(p, q) == Norm(<<p[1] * q[2] + q[1] * p[2], p[2] * q[2]>>)

QScale(k, q) == <<k * q[1], q[2]>>

QSub(p, q) == QAdd(p, QScale(-1, q))

QAbs(q) == <<Abs(q[1]), Abs(q[2])>>


\* p / q: the denominator is 0 when q is 0
QDiv(p, q) == Norm(<<p[1] * q[2], p[2] * q[1]>>)

\* A number as a quotient
Q(v) == <<v, 1>>

Zero == <<0, 1>>
One == <<1, 1>>

----------------------------------------------------------------------------
(* model.py: Inputs, Component; schedule.py: ScheduleItem *)

\* constants.py: 0.01 and 0.0001
DEFAULT_AUDIT_TOLERANCE_AMOUNT == <<1, 100>>
DEFAULT_AUDIT_TOLERANCE_RATIO == <<1, 10000>>

\* Inputs.  inflation_root: 1 + inflation_rate is inflation_root squared;
\* spend_inflation_offset is counted in half years (0, 1, 2 for
\* start_of_year, mid_year, end_of_year).
MakeInputs(fy, balance, root, ret, offset) ==
    [starting_year |-> StartingYear,
     forecast_years |-> fy,
     max_components_rows |-> MaxComponentsRows,
     max_schedule_rows |-> MaxComponents * MaxYears,
     enable_schedule_expansion |-> TRUE,
     audit_tolerance_amount |-> DEFAULT_AUDIT_TOLERANCE_AMOUNT,
     audit_tolerance_ratio |-> DEFAULT_AUDIT_TOLERANCE_RATIO,
     beginning_reserve_balance |-> balance,
     inflation_root |-> root,
     investment_return_rate |-> ret,
     spend_inflation_offset |-> offset]

Component(id, cost, spend, rec, interval, incl, row) ==
    [id |-> id, base_cost |-> cost, spend_year |-> spend, recurring |-> rec,
     interval_years |-> interval, include |-> incl, row_index |-> row]

\* The default of inputs.yaml's spend_inflation_timing; None is a key that
\* is not given
DEFAULT_SPEND_INFLATION_TIMING == "end_of_year"

\* _parse_spend_inflation_timing, in half years; None stands for ValueError
ParseSpendInflationTiming(value) ==
    LET \* value.strip().lower() of the spellings tried
        normalized ==
            IF value \in {"Mid_Year", " mid_year "} THEN "mid_year"
            ELSE IF value = "END_OF_YEAR" THEN "end_of_year"
            ELSE value
    IN  IF normalized = "start_of_year" THEN Some(0)
        ELSE IF normalized = "mid_year" THEN Some(1)
        ELSE IF normalized = "end_of_year" THEN Some(2)
        ELSE None

\* load_inputs: the timing as given (the default when it is not) and its
\* offset
LoadTiming(raw) ==
    LET spend_inflation_timing ==
            IF raw = None THEN DEFAULT_SPEND_INFLATION_TIMING ELSE raw[1]
    IN  [spend_inflation_timing |-> spend_inflation_timing,
         spend_inflation_offset |->
             ParseSpendInflationTiming(spend_inflation_timing)]

\* year - starting_year + spend_inflation_offset, in half years
NativeExponent(inp, y) ==
    2 * (y - inp.starting_year) + inp.spend_inflation_offset

\* (1 + inflation_rate) ** (year - starting_year + spend_inflation_offset)
InflationFactor(inp, y) == Pow(inp.inflation_root, NativeExponent(inp, y))

\* str(n) of n >= 0, a character at a time
RECURSIVE Digits(_)
Digits(n) ==
    LET digit == <<"0", "1", "2", "3", "4", "5", "6", "7", "8", "9">>[(n % 10) + 1]
    IN  IF n < 10 THEN <<digit>> ELSE Append(Digits(n \div 10), digit)

\* Faulty variant of FormatInflationOffset: every offset is cut to an integer
FormatInflationOffsetTruncated(offset) ==
    IF offset = 0 THEN <<>> ELSE <<"+">> \o Digits(offset \div 2)

\* _format_inflation_offset of an offset in half years: "", "+1", "+0.5"
FormatInflationOffset(offset) ==
    IF offset = 0 THEN <<>>
    ELSE IF offset % 2 = 0 THEN <<"+">> \o Digits(offset \div 2)
    ELSE <<"+">> \o Digits(offset \div 2) \o <<".", "5">>

\* The number a run of decimal digits denotes
RECURSIVE DigitsValue(_)
DigitsValue(chars) ==
    IF chars = <<>> THEN 0
    ELSE 10 * DigitsValue(SubSeq(chars, 1, Len(chars) - 1))
            + (CHOOSE d \in 0..9 : Digits(d) = <<chars[Len(chars)]>>)

\* The value the spreadsheet gives the emitted term: nothing is 0, "+n" is
\* n, "+n.f" is n + f / 10^len(f)
ExcelTerm(text) ==
    IF text = <<>> THEN Zero
    ELSE LET number == Tail(text)
             dots == {k \in 1..Len(number) : number[k] = "."}
         IN  IF dots = {} THEN Q(DigitsValue(number))
             ELSE LET dot == CHOOSE k \in dots : TRUE
                      fraction == SubSeq(number, dot + 1, Len(number))
                  IN  QAdd(Q(DigitsValue(SubSeq(number, 1, dot - 1))),
                           <<DigitsValue(fraction), Pow(10, Len(fraction))>>)

\* (year_cell - start_year_cell{inflation_offset}), in half years (the
\* terms emitted are multiples of one half)
FormulaExponent(inp, year_cell, start_year_cell) ==
    LET offset_text == FormatInflationOffset(inp.spend_inflation_offset)
        halves == QScale(2, QAdd(Q(year_cell - start_year_cell),
                                 ExcelTerm(offset_text)))
    IN  halves[1] \div halves[2]

\* (1 + Inputs!$B$4) ^ (year_cell - Inputs!$B$2{inflation_offset})
FormulaInflationFactor(inp, year_cell) ==
    Pow(inp.inflation_root, FormulaExponent(inp, year_cell, inp.starting_year))

EndYear(inp) == inp.starting_year + inp.forecast_years - 1

\* Faulty variant of IntervalOrZero: a missing interval counts as 1
IntervalOrOne(c) ==
    IF c.interval_years = None \/ c.interval_years = Some(0) THEN 1
    ELSE c.interval_years[1]

\* component.interval_years or 0
IntervalOrZero(c) ==
    IF c.interval_years = None THEN 0 ELSE c.interval_years[1]

----------------------------------------------------------------------------
(* excel.py: _fully_funded_balance, the native funding fraction *)

\* Faulty variant of YearsToNext: only the first cycle after spend_year
\* is counted
YearsToNextFirstCycle(c, interval, y) ==
    IF y <= c.spend_year
    THEN c.spend_year - y
    ELSE c.spend_year + interval - y

\* years_to_next of a recurring component with interval > 0
YearsToNext(c, interval, y) ==
    IF y <= c.spend_year
    THEN c.spend_year - y
    ELSE LET cycles == CeilDiv(y - c.spend_year, interval)
         IN  c.spend_year + cycles * interval - y

\* Faulty variant of RecurringFraction: the age is not clamped at 0
RecurringFractionNoClamp(c, y) ==
    LET interval == IntervalOrZero(c)
    IN  IF interval <= 0
        THEN Zero
        ELSE Div(interval - YearsToNext(c, interval, y), interval)

RecurringFraction(c, y) ==
    LET interval == IntervalOrZero(c)
    IN  IF interval <= 0
        THEN Zero
        ELSE LET recurring_age == interval - YearsToNext(c, interval, y)
             IN  IF recurring_age <= 0 THEN Zero
                 ELSE Div(recurring_age, interval)

\* Faulty variant of NonRecurringFraction: the spend year itself counts as past
NonRecurringFractionPast(c, inp, y) ==
    IF y >= c.spend_year THEN Zero
    ELSE IF c.spend_year - inp.starting_year <= 0 THEN One
    ELSE Div(y - inp.starting_year, c.spend_year - inp.starting_year)

NonRecurringFraction(c, inp, y) ==
    IF y > c.spend_year THEN Zero
    ELSE IF c.spend_year - inp.starting_year <= 0 THEN One
    ELSE Div(y - inp.starting_year, c.spend_year - inp.starting_year)

NativeFraction(c, inp, y) ==
    IF c.recurring THEN RecurringFraction(c, y)
    ELSE NonRecurringFraction(c, inp, y)

\* The fraction of each included component, <<>> for a skipped one
NativeFractions(comps, inp, y) ==
    [i \in 1..Len(comps) |->
        IF comps[i].include THEN Some(NativeFraction(comps[i], inp, y))
        ELSE None]

RECURSIVE FundedSum(_, _, _, _)
FundedSum(comps, inp, y, i) ==
    IF i > Len(comps) THEN Zero
    ELSE IF ~comps[i].include THEN FundedSum(comps, inp, y, i + 1)
    ELSE QAdd(QScale(comps[i].base_cost * InflationFactor(inp, y),
                     NativeFraction(comps[i], inp, y)),
              FundedSum(comps, inp, y, i + 1))

FullyFundedBalance(comps, inp, y) == FundedSum(comps, inp, y, 1)

----------------------------------------------------------------------------
(* excel.py: _write_components_sheet and _write_funding_sheet, evaluated *)

\* Excel's reading of a cell as a number: an empty cell counts as 0
N(cell) == IF cell = None THEN 0 ELSE cell[1]

\* The cells of a Components row; "" and <<>> are empty cells
ComponentsRow(c) ==
    [A |-> c.id,
     D |-> Some(c.base_cost),
     E |-> Some(c.spend_year),
     F |-> IF c.recurring THEN "Y" ELSE "N",
     G |-> IF IntervalOrZero(c) = 0 THEN None ELSE Some(IntervalOrZero(c)),
     H |-> IF c.include THEN "Y" ELSE "N"]

FillerRow == [A |-> "", D |-> None, E |-> None, F |-> "", G |-> None, H |-> ""]

\* Row r (2 ..) of the Components sheet
ComponentsSheetRow(comps, r) ==
    LET hit == {i \in 1..Len(comps) : comps[i].row_index = r}
    IN  IF hit = {} THEN FillerRow
        ELSE ComponentsRow(comps[CHOOSE i \in hit : \A j \in hit : j <= i])

FormulaRecurringAge(cells, year_cell) ==
    LET delta == year_cell - N(cells.E)
    IN  IF N(cells.G) <= 0 THEN 0
        ELSE IF delta >= 0
             THEN IF Mod(delta, N(cells.G)) = 0 THEN N(cells.G)
                  ELSE Mod(delta, N(cells.G))
             ELSE N(cells.G) + delta

FormulaRecurringFraction(cells, year_cell) ==
    IF N(cells.G) <= 0 THEN Zero
    ELSE IF FormulaRecurringAge(cells, year_cell) <= 0 THEN Zero
    ELSE Div(FormulaRecurringAge(cells, year_cell), N(cells.G))

FormulaNonRecurringFraction(cells, year_cell, start_year_cell) ==
    IF year_cell > N(cells.E) THEN Zero
    ELSE IF N(cells.E) - start_year_cell <= 0 THEN One
    ELSE Div(year_cell - start_year_cell, N(cells.E) - start_year_cell)

FormulaFraction(cells, year_cell, start_year_cell) ==
    IF cells.F = "Y" THEN FormulaRecurringFraction(cells, year_cell)
    ELSE FormulaNonRecurringFraction(cells, year_cell, start_year_cell)

\* Faulty variant of FundingCell: the include flag is not read
FundingCellAnyInclude(cells, inp, year_cell) ==
    IF cells.A = "" THEN Zero
    ELSE QScale(N(cells.D) * FormulaInflationFactor(inp, year_cell),
                FormulaFraction(cells, year_cell, inp.starting_year))

\* The value of the Funding cell of a row in the column of year_cell
FundingCell(cells, inp, year_cell) ==
    IF cells.A = "" THEN Zero
    ELSE IF cells.H # "Y" THEN Zero
    ELSE QScale(N(cells.D) * FormulaInflationFactor(inp, year_cell),
                FormulaFraction(cells, year_cell, inp.starting_year))

\* One column of the Funding sheet, rows 2 .. 1 + max_components_rows
FundingRows(inp) == 2..(1 + inp.max_components_rows)

RECURSIVE ColumnSum(_, _, _)
ColumnSum(cells, r, last) ==
    IF r > last THEN Zero ELSE QAdd(cells[r], ColumnSum(cells, r + 1, last))

FundingColumn(comps, inp, year_cell) ==
    LET fractions == [r \in FundingRows(inp) |->
                        FormulaFraction(ComponentsSheetRow(comps, r),
                                        year_cell, inp.starting_year)]
        cells == [r \in FundingRows(inp) |->
                        FundingCell(ComponentsSheetRow(comps, r), inp, year_cell)]
    IN  [fractions |-> fractions, cells |-> cells,
         total |-> ColumnSum(cells, 2, 1 + inp.max_components_rows)]

----------------------------------------------------------------------------
(* The funding grid: _fully_funded_balance per year, then the Funding sheet
   per column *)

Intervals == {None} \cup {Some(k) : k \in (-1)..MaxInterval}

Idle ==
    /\ contributions = <<>>
    /\ year = 0
    /\ years = <<>>
    /\ schedule = <<>>
    /\ schedule_expenses = <<>>
    /\ begin_balance = 0
    /\ rows = <<>>
    /\ expected_rows = <<>>
    /\ sheet_rows = <<>>
    /\ flags = <<>>
    /\ native_fraction = <<>>
    /\ formula_fraction = <<>>
    /\ coverage_expected = <<>>
    /\ coverage_sheet = <<>>
    /\ forecast_sheet = [headers |-> <<>>, rows |-> <<>>]
    /\ checks_sheet = <<>>
    /\ first_components = <<>>
    /\ first_schedule = <<>>

\* No file is read: the caller passes the loaded values
NoFiles ==
    /\ components_csv = <<>>
    /\ contributions_csv = <<>>
    /\ errors = <<>>
    /\ warnings = <<>>
    /\ raised = ""
    /\ saved = FALSE

FundingInit ==
    /\ inputs \in {MakeInputs(fy, 0, 2, 0, 2) : fy \in 1..MaxYears}
    /\ components \in
          {<<Component("a", 100, s, rec, iv, incl, 2)>> :
              s \in (StartingYear - MaxInterval - 1)..(StartingYear + MaxYears),
              rec \in BOOLEAN, iv \in Intervals, incl \in BOOLEAN}
    /\ pc = "native"
    /\ idx = 0
    /\ Idle
    /\ NoFiles

\* _compute_audit_expected's call of _fully_funded_balance for one row
FundingNative ==
    /\ pc = "native"
    /\ idx < inputs.forecast_years
    /\ LET y == inputs.starting_year + idx
       IN  native_fraction' = Append(native_fraction,
               [fractions |-> NativeFractions(components, inputs, y),
                total |-> FullyFundedBalance(components, inputs, y)])
    /\ idx' = IF idx + 1 = inputs.forecast_years THEN 0 ELSE idx + 1
    /\ pc' = IF idx + 1 = inputs.forecast_years THEN "formula" ELSE "native"
    /\ UNCHANGED <<validation_vars, coverage_vars>>
    /\ UNCHANGED <<forecast_sheet, checks_sheet, first_components,
                   first_schedule>>
    /\ UNCHANGED <<inputs, components, contributions, year, years, schedule,
                   schedule_expenses, begin_balance, rows, expected_rows,
                   sheet_rows, flags, formula_fraction>>

\* The Funding sheet's column 3 + idx, evaluated
FundingFormula ==
    /\ pc = "formula"
    /\ idx < inputs.forecast_years
    /\ formula_fraction' = Append(formula_fraction,
           FundingColumn(components, inputs, inputs.starting_year + idx))
    /\ idx' = idx + 1
    /\ pc' = IF idx + 1 = inputs.forecast_years THEN "done" ELSE "formula"
    /\ UNCHANGED <<validation_vars, coverage_vars>>
    /\ UNCHANGED <<forecast_sheet, checks_sheet, first_components,
                   first_schedule>>
    /\ UNCHANGED <<inputs, components, contributions, year, years, schedule,
                   schedule_expenses, begin_balance, rows, expected_rows,
                   sheet_rows, flags, native_fraction>>

FundingNext == FundingNative \/ FundingFormula

SpecFunding == FundingInit /\ [][FundingNext]_vars

----------------------------------------------------------------------------
(* schedule.py: expand_schedule *)

ScheduleItem(y, c, inp) ==
    [year |-> y,
     component_id |-> c.id,
     base_cost |-> c.base_cost,
     component_row |-> c.row_index,
     nominal_expense |-> c.base_cost * InflationFactor(inp, y)]

\* Faulty variant of LoopCondition: the loop runs one year past the window
LoopConditionOneMore(y, end_year) == y <= end_year + 1

\* Faulty variant of LoopCondition: the window's last year is left out
LoopConditionExclusive(y, end_year) == y < end_year

\* while year <= end_year
LoopCondition(y, end_year) == y <= end_year

\* Faulty variant of NonRecurringYears: the window opens after its first year
NonRecurringYearsAfterStart(c, inp) ==
    IF inp.starting_year < c.spend_year /\ c.spend_year <= EndYear(inp)
    THEN <<c.spend_year>>
    ELSE <<>>

\* Faulty variant of NonRecurringYears: the window is not checked
NonRecurringYearsUnchecked(c, inp) == <<c.spend_year>>

\* The years of a non-recurring component
NonRecurringYears(c, inp) ==
    IF inp.starting_year <= c.spend_year /\ c.spend_year <= EndYear(inp)
    THEN <<c.spend_year>>
    ELSE <<>>

\* The order of component ids as strings
IdRank(id) ==
    LET order == <<"", "a", "b">>
    IN  CHOOSE k \in 1..Len(order) : order[k] = id

\* Faulty variant of KeyLeq: the key is the year alone
KeyLeqYearOnly(x, y) == x.year <= y.year

\* (item.year, item.component_id) <= the same key of another item
KeyLeq(x, y) ==
    \/ x.year < y.year
    \/ x.year = y.year /\ IdRank(x.component_id) <= IdRank(y.component_id)

\* list.sort is stable: an item goes after the items whose key is smaller
\* and after the earlier items whose key is equal
SortRank(items, k) ==
    Cardinality({j \in 1..Len(items) :
                    \/ ~KeyLeq(items[k], items[j])
                    \/ j <= k /\ KeyLeq(items[j], items[k])})

SortSchedule(items) ==
    [p \in 1..Len(items) |->
        items[CHOOSE k \in 1..Len(items) : SortRank(items, k) = p]]

\* for year in years: schedule.append(ScheduleItem(...))
AppendItems(sched, ys, c, inp) ==
    sched \o [k \in 1..Len(ys) |-> ScheduleItem(ys[k], c, inp)]

\* load_components numbers the rows from 2
WithRows(list) == [i \in 1..Len(list) |-> [list[i] EXCEPT !.row_index = i + 1]]

\* One component under study among up to MaxComponents - 1 others, at any
\* position
ComponentLists ==
    LET spend_years == (StartingYear - MaxInterval)..(StartingYear + MaxYears)
        subjects ==
            {Component("a", 100, s, rec, iv, incl, 0) :
                s \in spend_years, rec \in BOOLEAN, iv \in Intervals,
                incl \in BOOLEAN}
        others ==
            {Component("a", 10, StartingYear, TRUE, Some(1), TRUE, 0),
             Component("b", 10, StartingYear, FALSE, None, TRUE, 0),
             Component("", 10, StartingYear + 1, TRUE, Some(2), FALSE, 0)}
        other_lists ==
            UNION {[1..n -> others] : n \in 0..(MaxComponents - 1)}
    IN  {WithRows(SubSeq(t[1], 1, t[2] - 1) \o <<t[3]>>
                      \o SubSeq(t[1], t[2], Len(t[1]))) :
            t \in {u \in other_lists \X (1..MaxComponents) \X subjects :
                      u[2] <= Len(u[1]) + 1}}

ScheduleInit ==
    /\ inputs \in {MakeInputs(fy, 0, 2, 0, 2) : fy \in {1, MaxYears}}
    /\ components \in ComponentLists
    /\ pc = "expand"
    /\ idx = 1
    /\ Idle
    /\ NoFiles

\* for component in components: the skips and the start of its years
ExpandBegin ==
    /\ pc = "expand"
    /\ idx <= Len(components)
    /\ LET component == components[idx]
       IN  IF ~component.include
           THEN /\ idx' = idx + 1
                /\ UNCHANGED <<pc, year, years>>
           ELSE IF component.recurring
           THEN IF IntervalOrZero(component) <= 0
                THEN /\ idx' = idx + 1
                     /\ UNCHANGED <<pc, year, years>>
                ELSE /\ year' = component.spend_year
                     /\ years' = <<>>
                     /\ pc' = "while"
                     /\ UNCHANGED idx
           ELSE /\ years' = NonRecurringYears(component, inputs)
                /\ pc' = "emit"
                /\ UNCHANGED <<idx, year>>
    /\ UNCHANGED <<validation_vars, coverage_vars>>
    /\ UNCHANGED <<forecast_sheet, checks_sheet, first_components,
                   first_schedule>>
    /\ UNCHANGED <<inputs, components, contributions, schedule,
                   schedule_expenses, begin_balance, rows, expected_rows,
                   sheet_rows, flags, native_fraction, formula_fraction>>

\* One test of the while condition, and one pass of its body
ExpandWhile ==
    /\ pc = "while"
    /\ IF LoopCondition(year, EndYear(inputs))
       THEN /\ years' = IF year >= inputs.starting_year
                        THEN Append(years, year) ELSE years
            /\ year' = year + IntervalOrZero(components[idx])
            /\ UNCHANGED pc
       ELSE /\ pc' = "emit"
            /\ UNCHANGED <<year, years>>
    /\ UNCHANGED <<validation_vars, coverage_vars>>
    /\ UNCHANGED <<forecast_sheet, checks_sheet, first_components,
                   first_schedule>>
    /\ UNCHANGED <<inputs, components, contributions, idx, schedule,
                   schedule_expenses, begin_balance, rows, expected_rows,
                   sheet_rows, flags, native_fraction, formula_fraction>>

\* for year in years: schedule.append(...)
ExpandEmit ==
    /\ pc = "emit"
    /\ schedule' = AppendItems(schedule, years, components[idx], inputs)
    /\ years' = <<>>
    /\ idx' = idx + 1
    /\ pc' = "expand"
    /\ UNCHANGED <<validation_vars, coverage_vars>>
    /\ UNCHANGED <<forecast_sheet, checks_sheet, first_components,
                   first_schedule>>
    /\ UNCHANGED <<inputs, components, contributions, year,
                   schedule_expenses, begin_balance, rows, expected_rows,
                   sheet_rows, flags, native_fraction, formula_fraction>>

\* schedule.sort(...); return schedule
ExpandSort ==
    /\ pc = "expand"
    /\ idx > Len(components)
    /\ schedule' = SortSchedule(schedule)
    /\ pc' = "expanded"
    /\ UNCHANGED <<validation_vars, coverage_vars>>
    /\ UNCHANGED <<forecast_sheet, checks_sheet, first_components,
                   first_schedule>>
    /\ UNCHANGED <<inputs, components, contributions, idx, year, years,
                   schedule_expenses, begin_balance, rows, expected_rows,
                   sheet_rows, flags, native_fraction, formula_fraction>>

ScheduleNext == ExpandBegin \/ ExpandWhile \/ ExpandEmit \/ ExpandSort

SpecSchedule == ScheduleInit /\ [][ScheduleNext]_vars

\* Before the call: no argument is bound yet
TerminationInit ==
    /\ inputs = MakeInputs(1, 0, 2, 0, 2)
    /\ components = <<>>
    /\ pc = "call"
    /\ idx = 1
    /\ Idle
    /\ NoFiles

\* expand_schedule(components, inputs) is called
CallExpand ==
    /\ pc = "call"
    /\ inputs' \in {MakeInputs(fy, 0, 2, 0, 2) : fy \in {1, MaxYears}}
    /\ components' \in ComponentLists
    /\ pc' = "expand"
    /\ UNCHANGED <<validation_vars, coverage_vars>>
    /\ UNCHANGED <<forecast_sheet, checks_sheet, first_components,
                   first_schedule>>
    /\ UNCHANGED <<contributions, idx, year, years, schedule,
                   schedule_expenses, begin_balance, rows, expected_rows,
                   sheet_rows, flags, native_fraction, formula_fraction>>

TerminationNext == CallExpand \/ ScheduleNext

\* The call runs on: a statement that can be executed is executed
SpecTermination ==
    TerminationInit /\ [][TerminationNext]_vars /\ WF_vars(TerminationNext)

\* _validate_components_csv: a recurring row without an integer interval > 0
\* is an error; the id is read only to skip a row without id and name
AcceptedIntervals(list) ==
    \A i \in 1..Len(list) :
        list[i].recurring =>
            /\ list[i].interval_years # None
            /\ list[i].interval_years[1] > 0

ReorderInit ==
    /\ inputs \in {MakeInputs(fy, 0, 2, 0, 2) : fy \in {1, MaxYears}}
    /\ components \in {list \in ComponentLists : AcceptedIntervals(list)}
    /\ pc = "expand"
    /\ idx = 1
    /\ Idle
    /\ NoFiles

\* expand_schedule is called again, with the same rows in another order
ExpandReordered ==
    /\ pc = "expanded"
    /\ first_components = <<>>
    /\ components # <<>>
    /\ \E p \in {q \in [1..Len(components) -> 1..Len(components)] :
                    \A i, j \in 1..Len(components) : q[i] = q[j] => i = j} :
          components' = WithRows([i \in 1..Len(components) |->
                                     components[p[i]]])
    /\ first_components' = components
    /\ first_schedule' = schedule
    /\ schedule' = <<>>
    /\ idx' = 1
    /\ pc' = "expand"
    /\ UNCHANGED <<validation_vars, coverage_vars>>
    /\ UNCHANGED <<forecast_sheet, checks_sheet>>
    /\ UNCHANGED <<inputs, contributions, year, years,
                   schedule_expenses, begin_balance, rows, expected_rows,
                   sheet_rows, flags, native_fraction, formula_fraction>>

ReorderNext == ScheduleNext \/ ExpandReordered

SpecReorder == ReorderInit /\ [][ReorderNext]_vars

----------------------------------------------------------------------------
(* model.py: expenses_by_year, compute_forecast *)

\* Faulty variant of DictGet: a missing key reads as the last amount added
DictGetStale(d, y) ==
    IF y \in DOMAIN d THEN d[y]
    ELSE IF DOMAIN d = {} THEN 0
    ELSE d[CHOOSE k \in DOMAIN d : \A j \in DOMAIN d : j <= k]

\* d.get(y, 0.0)
DictGet(d, y) == IF y \in DOMAIN d THEN d[y] ELSE 0

\* totals[item.year] = totals.get(item.year, 0.0) + item.nominal_expense
RECURSIVE ExpensesByYear(_)
ExpensesByYear(items) ==
    IF items = <<>> THEN <<>>
    ELSE LET totals == ExpensesByYear(SubSeq(items, 1, Len(items) - 1))
             item == items[Len(items)]
         IN  [y \in DOMAIN totals \cup {item.year} |->
                 IF y = item.year
                 THEN DictGet(totals, y) + item.nominal_expense
                 ELSE totals[y]]

\* Faulty variant of ForecastRow: interest is left out of the end balance
ForecastRowNoInterest(inp, contribs, expenses_map, y, begin) ==
    LET contribution == DictGet(contribs, y)
        interest == begin * inp.investment_return_rate
        expenses == DictGet(expenses_map, y)
    IN  [year |-> y,
         begin_balance |-> begin,
         contributions |-> contribution,
         interest |-> interest,
         expenses |-> expenses,
         end_balance |-> begin + contribution - expenses]

\* One pass of compute_forecast's loop body
ForecastRow(inp, contribs, expenses_map, y, begin) ==
    LET contribution == DictGet(contribs, y)
        interest == begin * inp.investment_return_rate
        expenses == DictGet(expenses_map, y)
    IN  [year |-> y,
         begin_balance |-> begin,
         contributions |-> contribution,
         interest |-> interest,
         expenses |-> expenses,
         end_balance |-> begin + contribution + interest - expenses]

----------------------------------------------------------------------------
(* The build: expand_schedule, then the native forecast *)

ForecastComponentLists ==
    LET choices ==
            {Component("a", 10, StartingYear + 1, FALSE, None, TRUE, 0),
             Component("", 5, StartingYear, TRUE, Some(2), TRUE, 0)}
    IN  {WithRows(l) :
            l \in UNION {[1..n -> choices] : n \in 0..MaxComponents}}

\* Contribution maps: any set of years of the window and the year after it
ContributionMaps(inp) ==
    UNION {[ys -> {-10, 20}] :
            ys \in SUBSET (inp.starting_year..(EndYear(inp) + 1))}

ForecastInit ==
    /\ inputs \in {MakeInputs(fy, 100, 2, r, 2) :
                      fy \in {1, MaxYears}, r \in {0, 2}}
    /\ components \in ForecastComponentLists
    /\ contributions \in ContributionMaps(inputs)
    /\ pc = "expand"
    /\ idx = 1
    /\ year = 0
    /\ years = <<>>
    /\ schedule = <<>>
    /\ schedule_expenses = <<>>
    /\ begin_balance = 0
    /\ rows = <<>>
    /\ expected_rows = <<>>
    /\ sheet_rows = <<>>
    /\ flags = <<>>
    /\ native_fraction = <<>>
    /\ formula_fraction = <<>>
    /\ coverage_expected = <<>>
    /\ coverage_sheet = <<>>
    /\ forecast_sheet = [headers |-> <<>>, rows |-> <<>>]
    /\ checks_sheet = <<>>
    /\ first_components = <<>>
    /\ first_schedule = <<>>
    /\ NoFiles

\* _compute_audit_expected: expenses_by_year, and compute_forecast up to
\* its loop
StartForecast ==
    /\ pc = "expanded"
    /\ schedule_expenses' = ExpensesByYear(schedule)
    /\ begin_balance' = inputs.beginning_reserve_balance
    /\ rows' = <<>>
    /\ idx' = 0
    /\ pc' = "forecast"
    /\ UNCHANGED <<validation_vars, coverage_vars>>
    /\ UNCHANGED <<forecast_sheet, checks_sheet, first_components,
                   first_schedule>>
    /\ UNCHANGED <<inputs, components, contributions, year, years, schedule,
                   expected_rows, sheet_rows, flags, native_fraction,
                   formula_fraction>>

\* Faulty variant of ForecastYear: the range ends before end_year
ForecastYearExclusiveEnd ==
    /\ pc = "forecast"
    /\ idx < inputs.forecast_years - 1
    /\ LET row == ForecastRow(inputs, contributions, schedule_expenses,
                              inputs.starting_year + idx, begin_balance)
       IN  /\ rows' = Append(rows, row)
           /\ begin_balance' = row.end_balance
    /\ idx' = IF idx + 2 = inputs.forecast_years THEN 0 ELSE idx + 1
    /\ pc' = IF idx + 2 = inputs.forecast_years THEN "audit" ELSE "forecast"
    /\ UNCHANGED <<validation_vars, coverage_vars>>
    /\ UNCHANGED <<forecast_sheet, checks_sheet, first_components,
                   first_schedule>>
    /\ UNCHANGED <<inputs, components, contributions, year, years, schedule,
                   schedule_expenses, expected_rows, sheet_rows, flags,
                   native_fraction, formula_fraction>>

\* for year in range(start_year, end_year + 1)
ForecastYear ==
    /\ pc = "forecast"
    /\ idx < inputs.forecast_years
    /\ LET row == ForecastRow(inputs, contributions, schedule_expenses,
                              inputs.starting_year + idx, begin_balance)
       IN  /\ rows' = Append(rows, row)
           /\ begin_balance' = row.end_balance
    /\ idx' = IF idx + 1 = inputs.forecast_years THEN 0 ELSE idx + 1
    /\ pc' = IF idx + 1 = inputs.forecast_years THEN "audit" ELSE "forecast"
    /\ UNCHANGED <<validation_vars, coverage_vars>>
    /\ UNCHANGED <<forecast_sheet, checks_sheet, first_components,
                   first_schedule>>
    /\ UNCHANGED <<inputs, components, contributions, year, years, schedule,
                   schedule_expenses, expected_rows, sheet_rows, flags,
                   native_fraction, formula_fraction>>

----------------------------------------------------------------------------
(* excel.py: _compute_audit_expected *)

FORECAST_HEADERS ==
    <<"year", "begin_balance", "contributions", "cumulative_contributions",
      "interest", "cumulative_interest", "expenses", "end_balance",
      "percent_funded", "coverage_5yr">>

AUDIT_RATIO_HEADERS == {"percent_funded", "coverage_5yr"}

\* Faulty variant of PercentFunded: the zero denominator is not tested
PercentFundedUnguarded(begin, fully_funded) ==
    Some(QDiv(Q(begin), fully_funded))

\* None if fully_funded == 0 else row.begin_balance / fully_funded
PercentFunded(begin, fully_funded) ==
    IF fully_funded[1] = 0 THEN None
    ELSE Some(QDiv(Q(begin), fully_funded))

RECURSIVE SumGet(_, _, _)
SumGet(expenses_map, from, to) ==
    IF from > to THEN 0
    ELSE DictGet(expenses_map, from) + SumGet(expenses_map, from + 1, to)

\* coverage_end = min(row.year + 4, end_year)
CoverageEnd(inp, y) == Min(y + 4, EndYear(inp))

\* sum(schedule_expenses.get(year, 0.0) for year in range(y, coverage_end + 1))
CoverageSum(inp, expenses_map, y) ==
    SumGet(expenses_map, y, CoverageEnd(inp, y))

\* None if coverage_sum == 0 else row.begin_balance / coverage_sum
Coverage5yr(begin, coverage_sum) ==
    IF coverage_sum = 0 THEN None ELSE Some(Div(begin, coverage_sum))

\* Faulty variant of ExpectedRow: the cumulative sums are not carried over
ExpectedRowNoCarry(inp, comps, expenses_map, row, cum_contrib, cum_interest) ==
    <<Some(Q(row.year)),
      Some(Q(row.begin_balance)),
      Some(Q(row.contributions)),
      Some(Q(row.contributions)),
      Some(Q(row.interest)),
      Some(Q(row.interest)),
      Some(Q(row.expenses)),
      Some(Q(row.end_balance)),
      PercentFunded(row.begin_balance,
                    FullyFundedBalance(comps, inp, row.year)),
      Coverage5yr(row.begin_balance, CoverageSum(inp, expenses_map, row.year))>>

\* One pass of the loop over forecast_rows: the expected values of a row
ExpectedRow(inp, comps, expenses_map, row, cum_contrib, cum_interest) ==
    <<Some(Q(row.year)),
      Some(Q(row.begin_balance)),
      Some(Q(row.contributions)),
      Some(Q(cum_contrib + row.contributions)),
      Some(Q(row.interest)),
      Some(Q(cum_interest + row.interest)),
      Some(Q(row.expenses)),
      Some(Q(row.end_balance)),
      PercentFunded(row.begin_balance,
                    FullyFundedBalance(comps, inp, row.year)),
      Coverage5yr(row.begin_balance, CoverageSum(inp, expenses_map, row.year))>>

----------------------------------------------------------------------------
(* excel.py: _write_schedule_sheet and _write_forecast_sheet, evaluated *)

\* Schedule!D of an item: Components!$D$row * (1 + inflation) ^ (A - start + offset)
ScheduleSheetD(comps, inp, item) ==
    N(ComponentsSheetRow(comps, item.component_row).D)
        * FormulaInflationFactor(inp, item.year)

\* SUMIFS(Schedule!$D$2:$D$end, Schedule!$A$2:$A$end, A{row})
RECURSIVE SumIfs(_, _, _, _, _)
SumIfs(comps, inp, items, k, y) ==
    IF k > Min(Len(items), inp.max_schedule_rows) THEN 0
    ELSE (IF items[k].year = y THEN ScheduleSheetD(comps, inp, items[k]) ELSE 0)
            + SumIfs(comps, inp, items, k + 1, y)

SheetExpenses(comps, inp, items, y) == SumIfs(comps, inp, items, 1, y)

\* Faulty variant of Index: the position is counted from 0
IndexFromZero(first_row, n) == first_row + n

\* INDEX of a column range that starts at first_row: the row of its n-th cell
Index(first_row, n) == first_row + n - 1

\* The last row of G{row}:INDEX($G$2:$G${1+N}, MIN({row}+4, {1+N}) - 1)
CoverageLastRow(r, forecast_years) ==
    Index(2, Min(r + 4, 1 + forecast_years) - 1)

\* SUM(G{row}:INDEX($G$2:$G${1+N}, MIN({row}+4, {1+N}) - 1)), by sheet row
RECURSIVE SheetCoverageSum(_, _, _, _, _)
SheetCoverageSum(comps, inp, items, r, last) ==
    IF r > last THEN 0
    ELSE SheetExpenses(comps, inp, items, inp.starting_year + r - 2)
            + SheetCoverageSum(comps, inp, items, r + 1, last)

\* IF(denominator = 0, "", B / denominator)
SheetRatio(b, denominator) ==
    IF denominator[1] = 0 THEN None ELSE Some(QDiv(b, denominator))

\* Row r of the Forecast sheet (columns A..J), given the row above it
ForecastSheetRow(comps, inp, contribs, items, r, above) ==
    LET y == inp.starting_year + r - 2
        b == IF r = 2 THEN Q(inp.beginning_reserve_balance) ELSE above[8][1]
        c == Q(DictGet(contribs, y))
        d == IF r = 2 THEN c ELSE QAdd(above[4][1], c)
        e == QScale(inp.investment_return_rate, b)
        f == IF r = 2 THEN e ELSE QAdd(above[6][1], e)
        g == Q(SheetExpenses(comps, inp, items, y))
        h == QSub(QAdd(QAdd(b, c), e), g)
        fully_funded == FundingColumn(comps, inp, y).total
        coverage_sum ==
            Q(SheetCoverageSum(comps, inp, items, r,
                               CoverageLastRow(r, inp.forecast_years)))
    IN  <<Some(Q(y)), Some(b), Some(c), Some(d), Some(e), Some(f), Some(g),
          Some(h), SheetRatio(b, fully_funded), SheetRatio(b, coverage_sum)>>

\* The tolerance of a base column
Tolerance(inp, header) ==
    IF header = "year" THEN Q(0)
    ELSE IF header \in AUDIT_RATIO_HEADERS THEN inp.audit_tolerance_ratio
    ELSE inp.audit_tolerance_amount

\* IF(OR(actual="", expected=""), "", IF(ABS(actual-expected)>tol, "FAIL", ""))
AuditFlag(actual, expected, tol) ==
    IF actual = None \/ expected = None THEN ""
    ELSE IF QGt(QAbs(QSub(actual[1], expected[1])), tol) THEN "FAIL" ELSE ""

AuditFlags(inp, actual_row, expected_row) ==
    [i \in 1..Len(FORECAST_HEADERS) |->
        AuditFlag(actual_row[i], expected_row[i],
                  Tolerance(inp, FORECAST_HEADERS[i]))]

\* The last cell of a column of the rows so far, 0 when there is none
LastOf(rws, col) == IF rws = <<>> THEN 0 ELSE rws[Len(rws)][col][1][1]

\* for row in forecast_rows, in _compute_audit_expected
AuditExpected ==
    /\ pc = "audit"
    /\ idx < inputs.forecast_years
    /\ expected_rows' = Append(expected_rows,
           ExpectedRow(inputs, components, schedule_expenses, rows[idx + 1],
                       LastOf(expected_rows, 4), LastOf(expected_rows, 6)))
    /\ idx' = IF idx + 1 = inputs.forecast_years THEN 0 ELSE idx + 1
    /\ pc' = IF idx + 1 = inputs.forecast_years THEN "sheet" ELSE "audit"
    /\ UNCHANGED <<validation_vars, coverage_vars>>
    /\ UNCHANGED <<forecast_sheet, checks_sheet, first_components,
                   first_schedule>>
    /\ UNCHANGED <<inputs, components, contributions, year, years, schedule,
                   schedule_expenses, begin_balance, rows, sheet_rows, flags,
                   native_fraction, formula_fraction>>

\* The spreadsheet evaluates row 2 + idx of the Forecast sheet and its flags
EvaluateSheetRow ==
    /\ pc = "sheet"
    /\ idx < inputs.forecast_years
    /\ LET row == ForecastSheetRow(components, inputs, contributions, schedule,
                      2 + idx,
                      IF idx = 0 THEN <<>> ELSE sheet_rows[idx])
       IN  /\ sheet_rows' = Append(sheet_rows, row)
           /\ flags' = Append(flags,
                              AuditFlags(inputs, row, expected_rows[idx + 1]))
    /\ idx' = idx + 1
    /\ pc' = IF idx + 1 = inputs.forecast_years THEN "done" ELSE "sheet"
    /\ UNCHANGED <<validation_vars, coverage_vars>>
    /\ UNCHANGED <<forecast_sheet, checks_sheet, first_components,
                   first_schedule>>
    /\ UNCHANGED <<inputs, components, contributions, year, years, schedule,
                   schedule_expenses, begin_balance, rows, expected_rows,
                   native_fraction, formula_fraction>>

ForecastNext ==
    \/ ExpandBegin
    \/ ExpandWhile
    \/ ExpandEmit
    \/ ExpandSort
    \/ StartForecast
    \/ ForecastYear
    \/ AuditExpected
    \/ EvaluateSheetRow

SpecForecast == ForecastInit /\ [][ForecastNext]_vars

----------------------------------------------------------------------------
(* The build under every spend_inflation_timing: one component that is due
   every year of the window *)

\* load_inputs for a timing that parses
LoadInputs(fy, root, raw) ==
    [spend_inflation_timing |-> LoadTiming(raw).spend_inflation_timing]
        @@ MakeInputs(fy, 101, root, 0, LoadTiming(raw).spend_inflation_offset[1])

\* inputs.yaml's spend_inflation_timing is written in one of its spellings
\* or left out
InflationInit ==
    /\ inputs \in {LoadInputs(fy, root, raw) :
                      fy \in 1..MaxYears, root \in {2, 3},
                      raw \in {None, Some("start_of_year"), Some("mid_year"),
                               Some("end_of_year"), Some("Mid_Year"),
                               Some(" mid_year "), Some("END_OF_YEAR")}}
    /\ components \in
          {WithRows(<<Component("a", cost, StartingYear, TRUE, Some(1), TRUE, 0)>>) :
              cost \in {1, 3}}
    /\ pc = "expand"
    /\ idx = 1
    /\ Idle
    /\ NoFiles

SpecInflation == InflationInit /\ [][ForecastNext]_vars

----------------------------------------------------------------------------
(* The coverage window: the native sum of _compute_audit_expected, then the
   range of the Forecast sheet's coverage formula, row by row *)

MaxCoverageYears == 7

CoverageComponentLists ==
    LET one_offs ==
            {Component("a", 10, StartingYear + d, FALSE, None, TRUE, 0) :
                d \in 0..(MaxCoverageYears - 1)}
        recurring ==
            {Component("b", 5, StartingYear, TRUE, Some(iv), TRUE, 0) :
                iv \in {2, 5, 6}}
    IN  {WithRows(<<c>>) : c \in one_offs \cup recurring}
            \cup {WithRows(<<c, d>>) : c \in one_offs, d \in recurring}

CoverageInit ==
    /\ inputs \in {MakeInputs(fy, 100, 2, 0, 2) : fy \in 1..MaxCoverageYears}
    /\ components \in CoverageComponentLists
    /\ pc = "expand"
    /\ idx = 1
    /\ Idle
    /\ NoFiles

\* _compute_audit_expected up to its loop: expenses_by_year
StartCoverage ==
    /\ pc = "expanded"
    /\ schedule_expenses' = ExpensesByYear(schedule)
    /\ idx' = 0
    /\ pc' = "coverage_native"
    /\ UNCHANGED <<validation_vars, coverage_vars>>
    /\ UNCHANGED <<forecast_sheet, checks_sheet, first_components,
                   first_schedule>>
    /\ UNCHANGED <<inputs, components, contributions, year, years, schedule,
                   begin_balance, rows, expected_rows, sheet_rows, flags,
                   native_fraction, formula_fraction>>

\* coverage_end and coverage_sum of the row of year starting_year + idx
CoverageNative ==
    /\ pc = "coverage_native"
    /\ idx < inputs.forecast_years
    /\ LET y == inputs.starting_year + idx
       IN  coverage_expected' = Append(coverage_expected,
               [first_year |-> y,
                last_year |-> CoverageEnd(inputs, y),
                sum |-> CoverageSum(inputs, schedule_expenses, y)])
    /\ idx' = IF idx + 1 = inputs.forecast_years THEN 0 ELSE idx + 1
    /\ pc' = IF idx + 1 = inputs.forecast_years
             THEN "coverage_formula" ELSE "coverage_native"
    /\ UNCHANGED <<validation_vars, coverage_sheet>>
    /\ UNCHANGED <<forecast_sheet, checks_sheet, first_components,
                   first_schedule>>
    /\ UNCHANGED <<inputs, components, contributions, year, years, schedule,
                   schedule_expenses, begin_balance, rows, expected_rows,
                   sheet_rows, flags, native_fraction, formula_fraction>>

\* The range and the value of the coverage sum in row 2 + idx of the sheet
CoverageFormula ==
    /\ pc = "coverage_formula"
    /\ idx < inputs.forecast_years
    /\ LET r == 2 + idx
           last == CoverageLastRow(r, inputs.forecast_years)
       IN  coverage_sheet' = Append(coverage_sheet,
               [first_row |-> r,
                last_row |-> last,
                sum |-> SheetCoverageSum(components, inputs, schedule, r, last)])
    /\ idx' = idx + 1
    /\ pc' = IF idx + 1 = inputs.forecast_years THEN "done" ELSE "coverage_formula"
    /\ UNCHANGED <<validation_vars, coverage_expected>>
    /\ UNCHANGED <<forecast_sheet, checks_sheet, first_components,
                   first_schedule>>
    /\ UNCHANGED <<inputs, components, contributions, year, years, schedule,
                   schedule_expenses, begin_balance, rows, expected_rows,
                   sheet_rows, flags, native_fraction, formula_fraction>>

CoverageNext ==
    \/ ExpandBegin
    \/ ExpandWhile
    \/ ExpandEmit
    \/ ExpandSort
    \/ StartCoverage
    \/ CoverageNative
    \/ CoverageFormula

SpecCoverage == CoverageInit /\ [][CoverageNext]_vars

----------------------------------------------------------------------------
(* CSV cells and messages *)

\* A cell as csv.DictReader returns it, stripped: the empty string, the
\* decimal numeral of an integer, or text that is no number ("N/A", "abc")
Blank == [kind |-> "blank", val |-> 0]

Numeral(n) == [kind |-> "int", val |-> n]

Text == [kind |-> "text", val |-> 0]

\* int(raw) and float(raw) of a non-empty cell return a value; otherwise
\* they raise ValueError
Parses(raw) == raw.kind = "int"

\* (raw or 0): an empty cell counts as 0
OrZero(raw) == IF raw.kind = "blank" THEN Numeral(0) ELSE raw

\* str.upper on a flag cell
Upper(s) == IF s = "y" THEN "Y" ELSE IF s = "n" THEN "N" ELSE s

\* A message of the result: the file and row it names, its text, the
\* numbers it lists
Msg(file, row, text, arg) ==
    [file |-> file, row |-> row, text |-> text, arg |-> arg]

RECURSIVE Flatten(_)
Flatten(seqs) ==
    IF seqs = <<>> THEN <<>> ELSE Head(seqs) \o Flatten(Tail(seqs))

\* sorted(S) of a set of integers
RECURSIVE Sorted(_)
Sorted(S) ==
    IF S = {} THEN <<>>
    ELSE LET m == CHOOSE x \in S : \A y \in S : x <= y
         IN  <<m>> \o Sorted(S \ {m})

----------------------------------------------------------------------------
(* validate.py: _validate_components_csv; model.py: load_components *)

CsvRow(id, name, cost, spend, rec, interval, incl) ==
    [id |-> id, name |-> name, base_cost |-> cost, spend_year |-> spend,
     recurring |-> rec, interval_years |-> interval, include |-> incl]

\* if not raw_id and not raw_name: continue
IsFiller(row) == row.id = "" /\ row.name = ""

IsData(row) == ~IsFiller(row)

\* Faulty variant of IntervalErrors: an interval of 0 is let pass
IntervalErrorsZeroAllowed(row, n) ==
    IF row.interval_years.kind = "blank"
    THEN <<Msg("components.csv", n,
               "interval_years required for recurring items", <<>>)>>
    ELSE IF ~Parses(row.interval_years)
    THEN <<Msg("components.csv", n, "interval_years must be an integer", <<>>)>>
    ELSE IF row.interval_years.val < 0
    THEN <<Msg("components.csv", n, "interval_years must be > 0", <<>>)>>
    ELSE <<>>

\* The interval checks of a recurring row
IntervalErrors(row, n) ==
    IF row.interval_years.kind = "blank"
    THEN <<Msg("components.csv", n,
               "interval_years required for recurring items", <<>>)>>
    ELSE IF ~Parses(row.interval_years)
    THEN <<Msg("components.csv", n, "interval_years must be an integer", <<>>)>>
    ELSE IF row.interval_years.val <= 0
    THEN <<Msg("components.csv", n, "interval_years must be > 0", <<>>)>>
    ELSE <<>>

\* The errors of the data row in line n of the file
RowErrors(row, n) ==
    (IF Upper(row.recurring) \notin {"Y", "N"}
     THEN <<Msg("components.csv", n, "recurring must be Y or N", <<>>)>>
     ELSE <<>>)
    \o (IF Upper(row.include) \notin {"Y", "N"}
        THEN <<Msg("components.csv", n, "include must be Y or N", <<>>)>>
        ELSE <<>>)
    \o (IF row.spend_year.kind = "blank"
        THEN <<Msg("components.csv", n, "spend_year is required", <<>>)>>
        ELSE IF ~Parses(row.spend_year)
        THEN <<Msg("components.csv", n, "spend_year must be an integer", <<>>)>>
        ELSE <<>>)
    \o (IF Upper(row.recurring) = "Y" THEN IntervalErrors(row, n) ELSE <<>>)

\* Faulty variant of RowWarnings: a spend year before the window is let pass
RowWarningsAfterOnly(row, n, inp) ==
    IF Parses(row.spend_year) /\ row.spend_year.val > EndYear(inp)
    THEN <<Msg("components.csv", n, "spend_year outside forecast window",
               <<row.spend_year.val>>)>>
    ELSE <<>>

\* The warnings of the data row in line n of the file
RowWarnings(row, n, inp) ==
    IF /\ Parses(row.spend_year)
       /\ \/ row.spend_year.val < inp.starting_year
          \/ row.spend_year.val > EndYear(inp)
    THEN <<Msg("components.csv", n, "spend_year outside forecast window",
               <<row.spend_year.val>>)>>
    ELSE <<>>

\* for row_number, row in enumerate(reader, start=2)
ComponentsCsvErrors(csv) ==
    Flatten([k \in 1..Len(csv) |->
                IF IsFiller(csv[k]) THEN <<>> ELSE RowErrors(csv[k], k + 1)])

ComponentsCsvWarnings(csv, inp) ==
    Flatten([k \in 1..Len(csv) |->
                IF IsFiller(csv[k]) THEN <<>> ELSE RowWarnings(csv[k], k + 1, inp)])

\* The exception building the Component of a row raises, "" for none:
\* int(interval_raw), float(base_cost), int(spend_year), in this order
LoadRowRaises(row) ==
    IF row.interval_years.kind # "blank" /\ ~Parses(row.interval_years)
    THEN "invalid literal for int()"
    ELSE IF ~Parses(OrZero(row.base_cost))
    THEN "could not convert string to float"
    ELSE IF ~Parses(OrZero(row.spend_year))
    THEN "invalid literal for int()"
    ELSE ""

LoadRow(row, row_index) ==
    Component(row.id,
              OrZero(row.base_cost).val,
              OrZero(row.spend_year).val,
              Upper(row.recurring) = "Y",
              IF row.interval_years.kind = "blank" THEN None
              ELSE Some(row.interval_years.val),
              Upper(row.include) = "Y",
              row_index)

\* load_components: the list, or the first exception
LoadComponents(csv) ==
    LET data == SelectSeq(csv, IsData)
        bad == {k \in 1..Len(data) : LoadRowRaises(data[k]) # ""}
    IN  IF bad # {}
        THEN [raised |-> LoadRowRaises(data[CHOOSE k \in bad : \A j \in bad : k <= j]),
              components |-> <<>>]
        ELSE [raised |-> "",
              components |-> [k \in 1..Len(data) |-> LoadRow(data[k], k + 1)]]

----------------------------------------------------------------------------
(* validate.py: _load_contributions_for_validation, _validate_contributions *)

ContributionRow(y, amount) == [year |-> y, contribution |-> amount]

\* contributions[year] = contribution
Put(d, k, v) == [x \in DOMAIN d \cup {k} |-> IF x = k THEN v ELSE d[x]]

\* One pass of the loop over the rows; n is the line of the row in the file
ContributionsStep(acc, row, n) ==
    IF row.year.kind = "blank" THEN acc
    ELSE IF ~Parses(row.year)
    THEN [acc EXCEPT !.errors =
             Append(@, Msg("scenario.csv", n, "year must be an integer", <<>>))]
    ELSE LET y == row.year.val
             seen == [acc EXCEPT
                         !.duplicate_years =
                             IF y \in acc.seen_years THEN @ \cup {y} ELSE @,
                         !.seen_years = @ \cup {y}]
         IN  IF row.contribution.kind = "blank"
             THEN [seen EXCEPT !.contributions = Put(@, y, 0)]
             ELSE IF ~Parses(row.contribution)
             THEN [seen EXCEPT !.errors =
                      Append(@, Msg("scenario.csv", n,
                                    "contribution must be a number", <<>>))]
             ELSE [seen EXCEPT !.contributions = Put(@, y, row.contribution.val)]

RECURSIVE ContributionsLoop(_, _)
ContributionsLoop(csv_rows, k) ==
    IF k = 0
    THEN [contributions |-> <<>>, errors |-> <<>>,
          seen_years |-> {}, duplicate_years |-> {}]
    ELSE ContributionsStep(ContributionsLoop(csv_rows, k - 1), csv_rows[k], k + 1)

\* _load_contributions_for_validation: (contributions, errors, warnings)
LoadContributionsForValidation(file) ==
    IF ~file.exists
    THEN [contributions |-> <<>>,
          errors |-> <<Msg("scenario.csv", 0, "Scenario file not found", <<>>)>>,
          warnings |-> <<>>]
    ELSE LET acc == ContributionsLoop(file.rows, Len(file.rows))
         IN  [contributions |-> acc.contributions,
              errors |-> acc.errors,
              warnings |->
                  IF acc.duplicate_years # {}
                  THEN <<Msg("scenario.csv", 0, "Duplicate contribution years",
                             Sorted(acc.duplicate_years))>>
                  ELSE <<>>]

\* Faulty variant of MissingYears: the last year of the window is left out
MissingYearsExclusive(inp, contribs) ==
    {y \in inp.starting_year..(EndYear(inp) - 1) : y \notin DOMAIN contribs}

\* year for year in range(start_year, end_year + 1) if year not in contributions
MissingYears(inp, contribs) ==
    {y \in inp.starting_year..EndYear(inp) : y \notin DOMAIN contribs}

ExtraYears(inp, contribs) ==
    {y \in DOMAIN contribs : y < inp.starting_year \/ y > EndYear(inp)}

\* _validate_contributions: (errors, warnings)
ValidateContributions(inp, contribs) ==
    [errors |->
        IF MissingYears(inp, contribs) # {}
        THEN <<Msg("", 0, "Missing contributions for years",
                   Sorted(MissingYears(inp, contribs)))>>
        ELSE <<>>,
     warnings |->
        IF ExtraYears(inp, contribs) # {}
        THEN <<Msg("", 0, "Contribution years outside forecast window",
                   Sorted(ExtraYears(inp, contribs)))>>
        ELSE <<>>]

----------------------------------------------------------------------------
(* validate.py: validate_scenario.  The files have their header row with
   every required column; inputs.yaml loads *)

MaxValidateYears == 2
MaxScheduleRows == 3

\* Every components file with a plain contributions file, and every
\* contributions file with a plain components file
ValidateFiles ==
    LET \* The row under study: its cost, recurrence and interval vary, or its
        \* spend year and flags, or its id and name
        SubjectRows ==
            LET BaseCostCells ==
                    {Blank, Text, Numeral(0), Numeral(-5), Numeral(10), Numeral(10000001)}
                IntervalCells ==
                    {Blank, Text, Numeral(0), Numeral(-1), Numeral(1), Numeral(2)}
                SpendYearCells ==
                    {Blank, Text} \cup
                    {Numeral(y) : y \in (StartingYear - 1)..(StartingYear + MaxValidateYears)}
            IN  {CsvRow("a", "n", cost, Numeral(StartingYear), rec, iv, "Y") :
                    cost \in BaseCostCells, rec \in {"Y", "N"}, iv \in IntervalCells}
                \cup {CsvRow("a", "n", Numeral(10), spend, rec, Numeral(1), incl) :
                        spend \in SpendYearCells, rec \in {"Y", "y", "N", "maybe", ""},
                        incl \in {"Y", "n", "yes"}}
                \cup {CsvRow(id, name, Numeral(10), Numeral(StartingYear), "N", Blank, "Y") :
                        id \in {"", "b"}, name \in {"", "n"}}

        FillerCsvRow == CsvRow("", "", Blank, Blank, "", Blank, "")

        AnnualCsvRow ==
            CsvRow("b", "n", Numeral(10), Numeral(StartingYear), "Y", Numeral(1), "Y")

        ComponentsFiles ==
            {<<>>} \cup
            UNION {{<<row>>, <<FillerCsvRow, row>>, <<AnnualCsvRow, row>>,
                    <<row, AnnualCsvRow>>} : row \in SubjectRows}

        \* One row per year of the longest window
        FullContributionRows ==
            [k \in 1..MaxValidateYears |->
                ContributionRow(Numeral(StartingYear + k - 1), Numeral(10 * k))]

        ContributionsFiles ==
            {[exists |-> FALSE, rows |-> <<>>]} \cup
            {[exists |-> TRUE, rows |-> r] : r \in
                {<<>>,
                 FullContributionRows,
                 SubSeq(FullContributionRows, 1, MaxValidateYears - 1),
                 <<ContributionRow(Numeral(StartingYear), Numeral(-10))>>
                    \o FullContributionRows,
                 <<ContributionRow(Numeral(StartingYear - 1), Numeral(5))>>
                    \o FullContributionRows
                    \o <<ContributionRow(Numeral(StartingYear + MaxValidateYears), Blank)>>,
                 <<ContributionRow(Text, Numeral(5))>> \o FullContributionRows,
                 <<ContributionRow(Text, Numeral(5))>> \o Tail(FullContributionRows),
                 Tail(FullContributionRows)
                    \o <<ContributionRow(Numeral(StartingYear), Text)>>,
                 <<ContributionRow(Blank, Numeral(5)),
                   ContributionRow(Numeral(StartingYear), Blank)>>
                    \o Tail(FullContributionRows)}}

        \* The files whose rows all load, with or without warnings
        PlainContributionsFiles ==
            {[exists |-> TRUE, rows |-> r] : r \in
                {FullContributionRows,
                 <<ContributionRow(Numeral(StartingYear), Numeral(-10))>>
                    \o FullContributionRows}}
    IN  (ComponentsFiles \X PlainContributionsFiles)
            \cup ({<<>>, <<AnnualCsvRow>>, <<FillerCsvRow, AnnualCsvRow>>}
                     \X ContributionsFiles)

\* The scenario on disk before a call that starts at position first
ScenarioInit(first) ==
    /\ inputs \in
          {[MakeInputs(fy, 0, 1, 0, 2) EXCEPT !.max_schedule_rows = m,
                                              !.max_components_rows = mc] :
              fy \in 1..MaxValidateYears, m \in 0..MaxScheduleRows,
              mc \in {1, MaxComponentsRows}}
          \cup {[MakeInputs(MaxValidateYears, 0, 1, 0, 2) EXCEPT
                    !.max_schedule_rows = 0,
                    !.enable_schedule_expansion = FALSE]}
    /\ \E files \in ValidateFiles :
          /\ components_csv = files[1]
          /\ contributions_csv = files[2]
    /\ components = <<>>
    /\ pc = first
    /\ idx = 0
    /\ errors = <<>>
    /\ warnings = <<>>
    /\ raised = ""
    /\ saved = FALSE
    /\ Idle

ValidateInit == ScenarioInit("validate_components")

\* component_errors, component_warnings = _validate_components_csv(...)
ValidateComponentsCsv ==
    /\ pc = "validate_components"
    /\ errors' = errors \o ComponentsCsvErrors(components_csv)
    /\ warnings' = warnings \o ComponentsCsvWarnings(components_csv, inputs)
    /\ pc' = "load_components"
    /\ UNCHANGED <<components_csv, contributions_csv, raised, saved, coverage_vars>>
    /\ UNCHANGED <<forecast_sheet, checks_sheet, first_components,
                   first_schedule>>
    /\ UNCHANGED <<inputs, components, contributions, idx, year, years,
                   schedule, schedule_expenses, begin_balance, rows,
                   expected_rows, sheet_rows, flags, native_fraction,
                   formula_fraction>>

\* if component_errors: components = []; else: try load_components
LoadComponentsOrNone ==
    /\ pc = "load_components"
    /\ IF errors # <<>>
       THEN /\ components' = <<>>
            /\ UNCHANGED errors
       ELSE LET loaded == LoadComponents(components_csv)
            IN  /\ components' = loaded.components
                /\ errors' = IF loaded.raised # ""
                             THEN Append(errors, Msg("", 0, loaded.raised, <<>>))
                             ELSE errors
    /\ pc' = "validate_contributions"
    /\ UNCHANGED <<components_csv, contributions_csv, warnings, raised, saved,
                   coverage_vars>>
    /\ UNCHANGED <<forecast_sheet, checks_sheet, first_components,
                   first_schedule>>
    /\ UNCHANGED <<inputs, contributions, idx, year, years, schedule,
                   schedule_expenses, begin_balance, rows, expected_rows,
                   sheet_rows, flags, native_fraction, formula_fraction>>

\* The contributions are loaded and, when they load without error, checked
\* against the window
CheckContributions ==
    /\ pc = "validate_contributions"
    /\ LET loaded == LoadContributionsForValidation(contributions_csv)
           checked == ValidateContributions(inputs, loaded.contributions)
       IN  /\ contributions' = loaded.contributions
           /\ errors' = errors \o loaded.errors
                  \o (IF loaded.errors = <<>> THEN checked.errors ELSE <<>>)
           /\ warnings' = warnings \o loaded.warnings
                  \o (IF loaded.errors = <<>> THEN checked.warnings ELSE <<>>)
    /\ pc' = "schedule_check"
    /\ UNCHANGED <<components_csv, contributions_csv, raised, saved, coverage_vars>>
    /\ UNCHANGED <<forecast_sheet, checks_sheet, first_components,
                   first_schedule>>
    /\ UNCHANGED <<inputs, components, idx, year, years, schedule,
                   schedule_expenses, begin_balance, rows, expected_rows,
                   sheet_rows, flags, native_fraction, formula_fraction>>

\* if not errors and components and enable_schedule_expansion: the schedule
\* is expanded; otherwise the result is returned
BeginScheduleCheck ==
    /\ pc = "schedule_check"
    /\ IF errors = <<>> /\ components # <<>> /\ inputs.enable_schedule_expansion
       THEN pc' = "expand" /\ idx' = 1
       ELSE pc' = "validated" /\ UNCHANGED idx
    /\ UNCHANGED <<validation_vars, coverage_vars>>
    /\ UNCHANGED <<forecast_sheet, checks_sheet, first_components,
                   first_schedule>>
    /\ UNCHANGED <<inputs, components, contributions, year, years, schedule,
                   schedule_expenses, begin_balance, rows, expected_rows,
                   sheet_rows, flags, native_fraction, formula_fraction>>

\* Faulty variant of ExceedsCapacity: a full grid is rejected too
ExceedsCapacityInclusive(count, capacity) == count >= capacity

\* len(schedule_items) > max_schedule_rows
ExceedsCapacity(count, capacity) == count > capacity

\* The length of the expanded schedule is compared with max_schedule_rows
\* and the result is returned
CheckScheduleRows ==
    /\ pc = "expanded"
    /\ errors' = IF ExceedsCapacity(Len(schedule), inputs.max_schedule_rows)
                 THEN Append(errors,
                             Msg("", 0, "Schedule rows exceed max_schedule_rows",
                                 <<Len(schedule), inputs.max_schedule_rows>>))
                 ELSE errors
    /\ pc' = "validated"
    /\ UNCHANGED <<components_csv, contributions_csv, warnings, raised, saved,
                   coverage_vars>>
    /\ UNCHANGED <<forecast_sheet, checks_sheet, first_components,
                   first_schedule>>
    /\ UNCHANGED <<inputs, components, contributions, idx, year, years,
                   schedule, schedule_expenses, begin_balance, rows,
                   expected_rows, sheet_rows, flags, native_fraction,
                   formula_fraction>>

ValidateNext ==
    \/ ValidateComponentsCsv
    \/ LoadComponentsOrNone
    \/ CheckContributions
    \/ BeginScheduleCheck
    \/ ExpandBegin
    \/ ExpandWhile
    \/ ExpandEmit
    \/ ExpandSort
    \/ CheckScheduleRows

SpecValidate == ValidateInit /\ [][ValidateNext]_vars

----------------------------------------------------------------------------
(* build.py: build_workbook *)

\* def validate_scenario(scenario, data_dir=None)
ValidateScenarioParameters == {"scenario", "data_dir"}

\* validate_scenario(scenario, data_dir=..., inputs_path=..., components_path=...)
BuildWorkbookKeywords == {"data_dir", "inputs_path", "components_path"}

\* A call with a keyword the function does not declare raises TypeError
\* before the function's body runs
CallBinds(keywords, parameters) == keywords \subseteq parameters

BuildInit == ScenarioInit("build_workbook")

\* build_workbook up to the return of its call of validate_scenario: the
\* call enters validate_scenario, or raises and ends build_workbook
BuildWorkbook ==
    /\ pc = "build_workbook"
    /\ IF CallBinds(BuildWorkbookKeywords, ValidateScenarioParameters)
       THEN pc' = "validate_components" /\ UNCHANGED raised
       ELSE pc' = "raised" /\ raised' = "TypeError"
    /\ UNCHANGED <<components_csv, contributions_csv, errors, warnings, saved,
                   coverage_vars>>
    /\ UNCHANGED <<forecast_sheet, checks_sheet, first_components,
                   first_schedule>>
    /\ UNCHANGED <<inputs, components, contributions, idx, year, years,
                   schedule, schedule_expenses, begin_balance, rows,
                   expected_rows, sheet_rows, flags, native_fraction,
                   formula_fraction>>

BuildNext == BuildWorkbook

SpecBuild == BuildInit /\ [][BuildNext]_vars

----------------------------------------------------------------------------
(* excel.py: the columns of the Forecast sheet and the rows of the Checks
   sheet *)

\* get_column_letter of a column 1 .. 702, a letter at a time
GetColumnLetter(col) ==
    LET letters == <<"A", "B", "C", "D", "E", "F", "G", "H", "I", "J", "K",
                     "L", "M", "N", "O", "P", "Q", "R", "S", "T", "U", "V",
                     "W", "X", "Y", "Z">>
    IN  IF col <= 26 THEN <<letters[col]>>
        ELSE <<letters[(col - 1) \div 26], letters[((col - 1) % 26) + 1]>>

\* The column the spreadsheet takes the letters of a reference to name
RECURSIVE ColumnNumber(_)
ColumnNumber(ref) ==
    IF ref = <<>> THEN 0
    ELSE 26 * ColumnNumber(SubSeq(ref, 1, Len(ref) - 1))
            + (CHOOSE k \in 1..26 : GetColumnLetter(k) = <<ref[Len(ref)]>>)

\* expected_col = expected_start_col + idx * 2
ExpectedCol(base_headers, i) == Len(base_headers) + 1 + i * 2

\* for idx, header in enumerate(base_headers): audit_columns.append(...)
AuditColumns(base_headers) ==
    [k \in 1..Len(base_headers) |->
        [actual_col |-> k,
         expected_col |-> ExpectedCol(base_headers, k - 1),
         flag_col |-> ExpectedCol(base_headers, k - 1) + 1,
         header |-> base_headers[k],
         tol_cell |-> IF base_headers[k] = "year" THEN "0"
                      ELSE IF base_headers[k] \in AUDIT_RATIO_HEADERS
                      THEN "Inputs!$B$8"
                      ELSE "Inputs!$B$7"]]

\* The expected value and the flag formula of a row, one audit column
\* after the other
RECURSIVE WriteAuditCells(_, _, _)
WriteAuditCells(cells, audit_columns, k) ==
    IF k = 0 THEN cells
    ELSE LET column == audit_columns[k]
             before == WriteAuditCells(cells, audit_columns, k - 1)
         IN  Put(Put(before, column.expected_col,
                     [kind |-> "expected", value_index |-> k - 1,
                      actual_ref |-> <<>>, expected_ref |-> <<>>, tol_cell |-> ""]),
                 column.flag_col,
                 [kind |-> "flag", value_index |-> k - 1,
                  actual_ref |-> GetColumnLetter(column.actual_col),
                  expected_ref |-> GetColumnLetter(column.expected_col),
                  tol_cell |-> column.tol_cell])

\* Faulty variant of ChecksFlagCol: the count reads the expected column
ChecksFlagColExpected(i) == Len(FORECAST_HEADERS) + 1 + i * 2

\* _write_checks_sheet: flag_col = expected_start_col + idx * 2 + 1
ChecksFlagCol(i) == Len(FORECAST_HEADERS) + 1 + i * 2 + 1

\* A row of the Checks sheet: its label and the Forecast column its COUNTIF
\* reads, <<>> for a row without one
ChecksRow(label, column) == [label |-> label, column |-> column]

LayoutInit ==
    /\ inputs \in {[enable_audit |-> audit, enable_checks |-> checks]
                        @@ MakeInputs(fy, 0, 1, 0, 2) :
                      audit \in BOOLEAN, checks \in BOOLEAN, fy \in 1..MaxYears}
    /\ components = <<>>
    /\ pc = "forecast_header"
    /\ idx = 0
    /\ Idle
    /\ NoFiles

\* _write_forecast_sheet: ws.append(headers)
WriteForecastHeader ==
    /\ pc = "forecast_header"
    /\ LET base_headers == FORECAST_HEADERS
           audit_headers ==
               Flatten([k \in 1..Len(base_headers) |->
                           <<base_headers[k] \o "_expected",
                             base_headers[k] \o "_audit">>])
       IN  forecast_sheet' =
               [headers |-> IF inputs.enable_audit
                            THEN base_headers \o audit_headers
                            ELSE base_headers,
                rows |-> <<>>]
    /\ idx' = 0
    /\ pc' = "forecast_rows"
    /\ UNCHANGED <<validation_vars, coverage_vars, checks_sheet, first_components,
                   first_schedule>>
    /\ UNCHANGED <<inputs, components, contributions, year, years, schedule,
                   schedule_expenses, begin_balance, rows, expected_rows,
                   sheet_rows, flags, native_fraction, formula_fraction>>

\* for offset in range(forecast_years): the cells of row 2 + offset
WriteForecastRow ==
    /\ pc = "forecast_rows"
    /\ idx < inputs.forecast_years
    /\ LET base == [col \in 1..Len(FORECAST_HEADERS) |->
                       [kind |-> "base", value_index |-> col - 1,
                        actual_ref |-> <<>>, expected_ref |-> <<>>,
                        tol_cell |-> ""]]
           audit_columns == AuditColumns(FORECAST_HEADERS)
           cells == IF inputs.enable_audit
                    THEN WriteAuditCells(base, audit_columns, Len(audit_columns))
                    ELSE base
       IN  forecast_sheet' =
               [forecast_sheet EXCEPT !.rows = Append(@, cells)]
    /\ idx' = IF idx + 1 = inputs.forecast_years THEN 0 ELSE idx + 1
    /\ pc' = IF idx + 1 = inputs.forecast_years THEN "checks" ELSE "forecast_rows"
    /\ UNCHANGED <<validation_vars, coverage_vars, checks_sheet, first_components,
                   first_schedule>>
    /\ UNCHANGED <<inputs, components, contributions, year, years, schedule,
                   schedule_expenses, begin_balance, rows, expected_rows,
                   sheet_rows, flags, native_fraction, formula_fraction>>

\* build_workbook's Checks sheet: _write_checks_sheet up to its audit loop,
\* or the sheet that says the checks are disabled
WriteChecksSheet ==
    /\ pc = "checks"
    /\ IF inputs.enable_checks
       THEN /\ checks_sheet' =
                  <<ChecksRow("Check", <<>>),
                    ChecksRow("Years with negative ending balance", <<"H">>),
                    ChecksRow("Years with zero expenses", <<"G">>),
                    ChecksRow("Years with coverage_5yr < 1.0", <<"J">>),
                    ChecksRow("Years with coverage_5yr < 0.5", <<"J">>),
                    ChecksRow("", <<>>),
                    ChecksRow("Negative balance years", <<>>),
                    ChecksRow("Year", <<>>)>>
                  \o [k \in 1..inputs.forecast_years |-> ChecksRow("", <<>>)]
                  \o (IF inputs.enable_audit
                      THEN <<ChecksRow("", <<>>), ChecksRow("Audit summary", <<>>)>>
                      ELSE <<>>)
            /\ pc' = IF inputs.enable_audit THEN "checks_audit" ELSE "done"
       ELSE /\ checks_sheet' =
                  <<ChecksRow("Checks disabled by FEATURES.enable_checks", <<>>)>>
            /\ pc' = "done"
    /\ UNCHANGED <<validation_vars, coverage_vars, forecast_sheet, first_components,
                   first_schedule>>
    /\ UNCHANGED <<inputs, components, contributions, idx, year, years,
                   schedule, schedule_expenses, begin_balance, rows,
                   expected_rows, sheet_rows, flags, native_fraction,
                   formula_fraction>>

\* for idx, header in enumerate(FORECAST_HEADERS): ws.append([...])
ChecksAuditRow ==
    /\ pc = "checks_audit"
    /\ idx < Len(FORECAST_HEADERS)
    /\ checks_sheet' =
          Append(checks_sheet,
                 ChecksRow("Audit flags: " \o FORECAST_HEADERS[idx + 1],
                           GetColumnLetter(ChecksFlagCol(idx))))
    /\ idx' = idx + 1
    /\ pc' = IF idx + 1 = Len(FORECAST_HEADERS) THEN "done" ELSE "checks_audit"
    /\ UNCHANGED <<validation_vars, coverage_vars, forecast_sheet, first_components,
                   first_schedule>>
    /\ UNCHANGED <<inputs, components, contributions, year, years, schedule,
                   schedule_expenses, begin_balance, rows, expected_rows,
                   sheet_rows, flags, native_fraction, formula_fraction>>

LayoutNext ==
    \/ WriteForecastHeader
    \/ WriteForecastRow
    \/ WriteChecksSheet
    \/ ChecksAuditRow

SpecLayout == LayoutInit /\ [][LayoutNext]_vars

----------------------------------------------------------------------------
(* Claims about the funding fraction *)

\* The native results so far: <<component index, year, fraction>>
NativeResults ==
    {<<i, inputs.starting_year + o - 1, native_fraction[o].fractions[i][1]>> :
        <<o, i>> \in {p \in (1..Len(native_fraction)) \X (1..Len(components)) :
                        native_fraction[p[1]].fractions[p[2]] # None}}

\* C4: every funding fraction the native engine computes, for any component
\* (recurring or not, any spend_year, any interval, also <= 0 or missing)
\* and any year of the window, lies in [0, 1].
C4_FractionInUnitInterval ==
    \A r \in NativeResults :
        /\ r[3][2] > 0
        /\ 0 <= r[3][1]
        /\ r[3][1] <= r[3][2]

\* A recurring component whose first occurrence is more than one interval
\* away (the clamp applies), fully evaluated
C4_Witness ==
    /\ pc = "done"
    /\ \E r \in NativeResults :
          /\ components[r[1]].recurring
          /\ IntervalOrZero(components[r[1]]) > 0
          /\ components[r[1]].spend_year - r[2]
                > IntervalOrZero(components[r[1]])
    /\ \E r \in NativeResults : 0 < r[3][1] /\ r[3][1] < r[3][2]

\* C5: for every component row and every forecast year the fraction of the
\* Funding-sheet formula equals the natively computed fraction, and neither
\* divides by zero.
C5_FormulaEqualsNative ==
    \A r \in NativeResults :
        (r[2] - inputs.starting_year + 1) \in 1..Len(formula_fraction) =>
            LET f == formula_fraction[r[2] - inputs.starting_year + 1]
                        .fractions[components[r[1]].row_index]
            IN  /\ ~DivByZero(f)
                /\ ~DivByZero(r[3])
                /\ QEq(f, r[3])

\* A year after spend_year landing exactly on an occurrence, both evaluated
C5_Witness ==
    /\ pc = "done"
    /\ \E r \in NativeResults :
          /\ components[r[1]].recurring
          /\ IntervalOrZero(components[r[1]]) > 1
          /\ r[2] > components[r[1]].spend_year
          /\ (r[2] - components[r[1]].spend_year)
                % IntervalOrZero(components[r[1]]) = 0
          /\ r[3] = <<IntervalOrZero(components[r[1]]),
                      IntervalOrZero(components[r[1]])>>

\* C9: an included non-recurring component with spend_year > starting_year
\* has fraction (y - starting_year) / (spend_year - starting_year) for
\* y <= spend_year and 0 for y > spend_year; with spend_year = starting_year
\* the fraction is 1 for y <= spend_year and 0 after.
C9_NonRecurringRamp ==
    \A r \in NativeResults :
        LET c == components[r[1]]
            y == r[2]
            start == inputs.starting_year
        IN  (~c.recurring /\ c.spend_year >= start) =>
                /\ r[3][2] > 0
                /\ (y > c.spend_year) => r[3][1] = 0
                /\ (y <= c.spend_year /\ c.spend_year > start) =>
                      r[3][1] * (c.spend_year - start) = (y - start) * r[3][2]
                /\ (y <= c.spend_year /\ c.spend_year = start) =>
                      r[3][1] = r[3][2]

\* A ramp whose spend year lies strictly inside the window, fully evaluated:
\* 0 at the start, 1 at spend_year, 0 after
C9_Witness ==
    /\ pc = "done"
    /\ ~components[1].recurring
    /\ components[1].include
    /\ components[1].spend_year > inputs.starting_year + 1
    /\ components[1].spend_year < EndYear(inputs)
    /\ \E r \in NativeResults : r[2] = components[1].spend_year /\ r[3][1] = r[3][2]
    /\ \E r \in NativeResults : r[2] > components[1].spend_year /\ r[3][1] = 0
    /\ \E r \in NativeResults : 0 < r[3][1] /\ r[3][1] < r[3][2]

\* The least n >= 0 with n * k >= d, for d >= 0 and k > 0
LeastCycles(d, k) ==
    CHOOSE n \in 0..d : n * k >= d /\ \A m \in 0..d : m * k >= d => n <= m

NextOccurrence(s, k, y) ==
    IF y <= s THEN s ELSE s + LeastCycles(y - s, k) * k

\* C10: an included recurring component with interval k > 0 has fraction
\* (k - years_until_next_occurrence) / k, clamped to 0 when that age is
\* <= 0; the next occurrence is spend_year for y <= spend_year and
\* spend_year + ceil((y - spend_year) / k) * k after.
C10_RecurringFraction ==
    \A r \in NativeResults :
        LET c == components[r[1]]
            k == IntervalOrZero(c)
        IN  (c.recurring /\ k > 0) =>
                LET age == k - (NextOccurrence(c.spend_year, k, r[2]) - r[2])
                IN  /\ r[3][2] > 0
                    /\ age <= 0 => r[3][1] = 0
                    /\ age > 0 => r[3][1] * k = age * r[3][2]

\* A recurring component evaluated before, on and after its first occurrence
C10_Witness ==
    /\ pc = "done"
    /\ components[1].recurring
    /\ components[1].include
    /\ IntervalOrZero(components[1]) > 1
    /\ \E r \in NativeResults : r[2] < components[1].spend_year
    /\ \E r \in NativeResults :
          /\ r[2] > components[1].spend_year
          /\ (r[2] - components[1].spend_year) % IntervalOrZero(components[1]) # 0
          /\ 0 < r[3][1] /\ r[3][1] < r[3][2]

\* The fraction the Funding sheet has for a native result
SheetFraction(r) ==
    formula_fraction[r[2] - inputs.starting_year + 1]
        .fractions[components[r[1]].row_index]

\* The native results of a recurring component with an interval > 0, from
\* its first occurrence on
SawtoothResults ==
    {r \in NativeResults :
        /\ components[r[1]].recurring
        /\ components[r[1]].interval_years # None
        /\ components[r[1]].interval_years[1] > 0
        /\ r[2] >= components[r[1]].spend_year}

\* C26 as claimed: the fraction of a recurring component with interval
\* k > 0 is 1 at each occurrence year and 0 in the year that follows an
\* occurrence year (taken here for k > 1 only: with k = 1 that year is an
\* occurrence year too and the two halves of the claim exclude each other)
C26_SawtoothResetsToZero ==
    \A r \in SawtoothResults :
        LET c == components[r[1]]
            k == c.interval_years[1]
        IN  /\ (r[2] - c.spend_year) % k = 0 => r[3][1] = r[3][2]
            /\ (k > 1 /\ (r[2] - c.spend_year) % k = 1) => r[3][1] = 0

\* C26, amended: the fraction of a recurring component with interval k > 0
\* is 1 at each occurrence year, 1/k in the year that follows an occurrence
\* year (which is an occurrence year itself when k = 1) and j/k in the j-th
\* year after an occurrence, back to 1 at the next one; the Funding sheet
\* has the same fraction
C26_SawtoothRestartsAtOneKth ==
    \A r \in SawtoothResults :
        LET c == components[r[1]]
            k == c.interval_years[1]
            j == (r[2] - c.spend_year) % k
        IN  /\ r[3][2] > 0
            /\ j = 0 => r[3][1] = r[3][2]
            /\ j > 0 => r[3][1] * k = j * r[3][2]
            /\ pc = "done" => /\ ~DivByZero(SheetFraction(r))
                              /\ QEq(SheetFraction(r), r[3])

\* A component with interval 3 due in the first year, evaluated over a whole
\* cycle: 1, 1/3, 2/3, 1
C26_Witness ==
    /\ pc = "done"
    /\ components[1].include
    /\ components[1].interval_years = Some(3)
    /\ components[1].spend_year = inputs.starting_year
    /\ \A j \in 0..3 :
          \E r \in SawtoothResults :
              /\ r[2] = inputs.starting_year + j
              /\ QEq(r[3], IF j = 0 THEN One ELSE <<j, 3>>)
              /\ QEq(SheetFraction(r), r[3])

----------------------------------------------------------------------------
(* Claims about schedule expansion *)

\* The positions of the returned schedule holding events of component i
EventsOf(i) ==
    {k \in 1..Len(schedule) :
        schedule[k].component_row = components[i].row_index}

EventYearsOf(i) == {schedule[k].year : k \in EventsOf(i)}

Window == inputs.starting_year..EndYear(inputs)

\* C2: an included recurring component with interval k > 0 and first spend
\* year s has events at exactly the years {s, s+k, s+2k, ...} inside
\* [starting_year, last year], one event per year: occurrences before the
\* window are dropped, never shifted, and the last year is inclusive.
C2_RecurringEventYears ==
    pc = "expanded" =>
        \A i \in 1..Len(components) :
            LET c == components[i]
                k == IntervalOrZero(c)
            IN  (c.include /\ c.recurring /\ k > 0) =>
                    /\ EventYearsOf(i) =
                          {y \in Window :
                              y >= c.spend_year /\ (y - c.spend_year) % k = 0}
                    /\ Cardinality(EventsOf(i)) = Cardinality(EventYearsOf(i))

\* A cadence that starts before the window and is not aligned with its first
\* year, and one that has an event in the window's last year
C2_Witness ==
    /\ pc = "expanded"
    /\ \E i \in 1..Len(components) :
          /\ components[i].include /\ components[i].recurring
          /\ IntervalOrZero(components[i]) > 1
          /\ components[i].spend_year < inputs.starting_year
          /\ inputs.starting_year \notin EventYearsOf(i)
          /\ EventYearsOf(i) # {}
    /\ \E i \in 1..Len(components) :
          /\ components[i].include /\ components[i].recurring
          /\ EndYear(inputs) \in EventYearsOf(i)
          /\ Cardinality(EventYearsOf(i)) > 1

\* C3: an included non-recurring component has exactly one event, at
\* spend_year, when starting_year <= spend_year <= last year, and no event
\* otherwise.
C3_NonRecurringEvent ==
    pc = "expanded" =>
        \A i \in 1..Len(components) :
            LET c == components[i]
            IN  (c.include /\ ~c.recurring) =>
                    IF c.spend_year \in Window
                    THEN /\ Cardinality(EventsOf(i)) = 1
                         /\ EventYearsOf(i) = {c.spend_year}
                    ELSE EventsOf(i) = {}

\* One non-recurring component inside the window and one outside it
C3_Witness ==
    /\ pc = "expanded"
    /\ \E i \in 1..Len(components) :
          /\ components[i].include /\ ~components[i].recurring
          /\ components[i].spend_year = EndYear(inputs)
          /\ Cardinality(EventsOf(i)) = 1
    /\ \E i \in 1..Len(components) :
          /\ components[i].include /\ ~components[i].recurring
          /\ components[i].spend_year \notin Window
          /\ EventsOf(i) = {}

\* C11: the list expand_schedule returns is sorted by (year ascending,
\* component_id ascending): of two adjacent items the earlier one has the
\* smaller year, or the same year and a component_id that is not greater.
C11_SortedByYearThenId ==
    pc = "expanded" =>
        \A k \in 1..(Len(schedule) - 1) :
            \/ schedule[k].year < schedule[k + 1].year
            \/ /\ schedule[k].year = schedule[k + 1].year
               /\ IdRank(schedule[k].component_id)
                      <= IdRank(schedule[k + 1].component_id)

\* A returned schedule in which an item of a later component row stands
\* before an item of an earlier row in the same year (the sort moved it by
\* its id), followed by items of later years
C11_Witness ==
    /\ pc = "expanded"
    /\ Len(schedule) > 2
    /\ \E k \in 1..(Len(schedule) - 1) :
          /\ schedule[k].year = schedule[k + 1].year
          /\ schedule[k].component_row > schedule[k + 1].component_row
          /\ IdRank(schedule[k].component_id)
                < IdRank(schedule[k + 1].component_id)
    /\ \E k \in 1..(Len(schedule) - 1) :
          schedule[k].year < schedule[k + 1].year

\* C27: for an included component that is non-recurring or has an interval
\* > 0, and a year y of the window, the returned schedule holds an event of
\* the component at y if and only if its native funding fraction at y is 1.
C27_EventsWhereFractionIsOne ==
    pc = "expanded" =>
        \A i \in 1..Len(components) :
            LET c == components[i]
            IN  (c.include /\ (~c.recurring \/ IntervalOrZero(c) > 0)) =>
                    \A y \in Window :
                        /\ ~DivByZero(NativeFraction(c, inputs, y))
                        /\ (y \in EventYearsOf(i)) <=>
                              QEq(NativeFraction(c, inputs, y), One)

\* A cadence that started before the window with an occurrence year and a
\* year between occurrences, and a one-off in the window's first year
C27_Witness ==
    /\ pc = "expanded"
    /\ \E i \in 1..Len(components) :
          LET c == components[i]
          IN  /\ c.include /\ c.recurring /\ IntervalOrZero(c) > 1
              /\ c.spend_year < inputs.starting_year
              /\ \E y \in Window :
                    /\ y \in EventYearsOf(i)
                    /\ QEq(NativeFraction(c, inputs, y), One)
              /\ \E y \in Window :
                    /\ y \notin EventYearsOf(i)
                    /\ ~QEq(NativeFraction(c, inputs, y), One)
                    /\ ~QEq(NativeFraction(c, inputs, y), Zero)
    /\ \E i \in 1..Len(components) :
          LET c == components[i]
          IN  /\ c.include /\ ~c.recurring
              /\ c.spend_year = inputs.starting_year
              /\ EventYearsOf(i) = {c.spend_year}

\* C30: expand_schedule terminates, whether a recurring component starts
\* long before the window or has an interval that is 0, negative or missing
\* (every pass of the while loop moves year forward, and the call reaches
\* its return), and it emits at most forecast_years events per component.
C30_Terminates ==
    /\ <>(pc = "expanded")
    /\ [][(pc = "while" /\ pc' = "while") => year' > year]_vars
    /\ [](/\ Len(years) <= inputs.forecast_years
          /\ \A i \in 1..Len(components) :
                Cardinality(EventsOf(i)) <= inputs.forecast_years)

\* A returned schedule where a cadence that began MaxInterval years before
\* the window has an event in every year of it
C30_Witness ==
    /\ pc = "expanded"
    /\ inputs.forecast_years = MaxYears
    /\ \E i \in 1..Len(components) :
          /\ components[i].include /\ components[i].recurring
          /\ components[i].spend_year = inputs.starting_year - MaxInterval
          /\ Cardinality(EventsOf(i)) = inputs.forecast_years

\* What the claim compares of a schedule
EventTriples(sched) ==
    [k \in 1..Len(sched) |->
        <<sched[k].year, sched[k].component_id, sched[k].nominal_expense>>]

\* C28: for a component list accepted by validation and any reordering of
\* it, expand_schedule returns the same sequence of (year, component_id,
\* nominal_expense).
C28_OrderInvariant ==
    (pc = "expanded" /\ first_components # <<>>) =>
        EventTriples(schedule) = EventTriples(first_schedule)

----------------------------------------------------------------------------
(* Claims about excluded and degenerate components *)

\* An interval that is missing, zero or negative
Degenerate(c) == c.interval_years = None \/ c.interval_years[1] <= 0

\* The years in which a component is due inside the window, by its fields
OccurrenceYears(c) ==
    IF ~c.include THEN {}
    ELSE IF ~c.recurring THEN {c.spend_year} \cap Window
    ELSE IF Degenerate(c) THEN {}
    ELSE {y \in Window :
            y >= c.spend_year /\ (y - c.spend_year) % c.interval_years[1] = 0}

\* The inflated cost of the components from position i on that are due in y
RECURSIVE DueExpenses(_, _)
DueExpenses(i, y) ==
    IF i > Len(components) THEN 0
    ELSE (IF y \in OccurrenceYears(components[i])
          THEN components[i].base_cost * InflationFactor(inputs, y) ELSE 0)
            + DueExpenses(i + 1, y)

IsIncluded(c) == c.include

\* C23: a component with include = false has no event in the returned
\* schedule, the expenses of every year are those of the included
\* components alone, and the fully funded balance of every year, native and
\* as the Funding sheet sums it, is what it is without the component, its
\* own Funding cell being 0, whatever its other fields are
C23_ExcludedIgnored ==
    pc = "expanded" =>
        /\ \A y \in Window :
              /\ DictGet(ExpensesByYear(schedule), y) = DueExpenses(1, y)
              /\ SheetExpenses(components, inputs, schedule, y) = DueExpenses(1, y)
        /\ \A i \in 1..Len(components) :
              ~components[i].include =>
                  /\ EventsOf(i) = {}
                  /\ \A y \in Window :
                        LET others == SelectSeq(components, IsIncluded)
                            column == FundingColumn(components, inputs, y)
                        IN  /\ NativeFractions(components, inputs, y)[i] = None
                            /\ FullyFundedBalance(components, inputs, y)
                                  = FullyFundedBalance(others, inputs, y)
                            /\ column.cells[components[i].row_index] = Zero
                            /\ column.total
                                  = FundingColumn(others, inputs, y).total

\* An excluded component that would be due in the window and would count
\* towards the fully funded balance, next to an included one that does
C23_Witness ==
    /\ pc = "expanded"
    /\ schedule # <<>>
    /\ \E i \in 1..Len(components) :
          /\ ~components[i].include
          /\ components[i].recurring
          /\ IntervalOrZero(components[i]) = 2
          /\ components[i].spend_year = inputs.starting_year
          /\ components[i].base_cost > 0
          /\ components[i].id # ""
    /\ FullyFundedBalance(components, inputs, EndYear(inputs))[1] > 0

\* C25: a recurring component whose interval_years is <= 0 or missing does
\* not fail the core: expand_schedule runs to its end with no event of it
\* and with the events of the other components as they are due, and its
\* funding fraction is 0 in every year, native and in the Funding sheet
C25_DegenerateInterval ==
    /\ pc \in {"expand", "while", "emit", "expanded"}
    /\ pc = "while" => ~Degenerate(components[idx])
    /\ pc = "expanded" =>
          \A i \in 1..Len(components) :
              LET c == components[i]
              IN  /\ EventYearsOf(i) = OccurrenceYears(c)
                  /\ (c.recurring /\ Degenerate(c)) =>
                        /\ EventsOf(i) = {}
                        /\ \A y \in Window :
                              /\ RecurringFraction(c, y) = Zero
                              /\ c.include =>
                                    NativeFractions(components, inputs, y)[i]
                                        = Some(Zero)
                              /\ FundingColumn(components, inputs, y)
                                    .fractions[c.row_index] = Zero
                              /\ FundingColumn(components, inputs, y)
                                    .cells[c.row_index] = Zero

\* An included recurring component without an interval, and one with a
\* negative interval, next to a component that has its events
C25_Witness ==
    /\ pc = "expanded"
    /\ schedule # <<>>
    /\ \E i \in 1..Len(components) :
          /\ components[i].include /\ components[i].recurring
          /\ components[i].interval_years \in {None, Some(0), Some(-1)}
          /\ components[i].spend_year \in Window
          /\ \E j \in 1..Len(components) : j # i /\ EventsOf(j) # {}

----------------------------------------------------------------------------
(* Claims about the forecast *)

\* C1: the first row begins with beginning_reserve_balance, every row has
\* end_balance = begin_balance + contributions + interest - expenses, and
\* each row begins with the end balance of the row before it.
C1_ForecastChain ==
    /\ rows # <<>> => rows[1].begin_balance = inputs.beginning_reserve_balance
    /\ \A k \in 1..Len(rows) :
          rows[k].end_balance =
              rows[k].begin_balance + rows[k].contributions
                  + rows[k].interest - rows[k].expenses
    /\ \A k \in 1..(Len(rows) - 1) :
          rows[k + 1].begin_balance = rows[k].end_balance

\* A finished forecast of several years with interest, a contribution and
\* an expense in it
C1_Witness ==
    /\ pc = "audit"
    /\ Len(rows) = inputs.forecast_years
    /\ Len(rows) > 2
    /\ \E k \in 1..Len(rows) :
          /\ rows[k].interest > 0
          /\ rows[k].expenses > 0
          /\ rows[k].contributions # 0
          /\ rows[k].end_balance # rows[k].begin_balance

\* C12: compute_forecast returns exactly forecast_years rows, whose years
\* are starting_year, starting_year + 1, ..., starting_year +
\* forecast_years - 1 in ascending order, without gap or duplicate, for
\* every forecast_years >= 1.
C12_RowsContiguous ==
    /\ \A k \in 1..Len(rows) : rows[k].year = inputs.starting_year + k - 1
    /\ Len(rows) <= inputs.forecast_years
    /\ pc \in {"audit", "sheet", "done"} => Len(rows) = inputs.forecast_years

\* compute_forecast has returned the rows of a window of several years
C12_Witness ==
    /\ pc = "audit"
    /\ inputs.forecast_years = MaxYears
    /\ Len(rows) = MaxYears
    /\ rows[Len(rows)].year = EndYear(inputs)

\* The sum of nominal_expense over the schedule items of the years lo..hi
RECURSIVE ItemSum(_, _, _)
ItemSum(ks, lo, hi) ==
    IF ks = {} THEN 0
    ELSE LET k == CHOOSE j \in ks : TRUE
         IN  (IF schedule[k].year \in lo..hi
              THEN schedule[k].nominal_expense ELSE 0)
                + ItemSum(ks \ {k}, lo, hi)

\* The sum of the Schedule sheet's column D over the rows of the years lo..hi
RECURSIVE SheetItemSum(_, _, _)
SheetItemSum(ks, lo, hi) ==
    IF ks = {} THEN 0
    ELSE LET k == CHOOSE j \in ks : TRUE
         IN  (IF schedule[k].year \in lo..hi
              THEN ScheduleSheetD(components, inputs, schedule[k]) ELSE 0)
                + SheetItemSum(ks \ {k}, lo, hi)

\* C8: per year, interest = begin_balance * investment_return_rate, expenses
\* is the sum of nominal_expense over the schedule items of that year (0 when
\* there is none), and contributions is the map's entry (0 when the map has
\* none; a negative entry is applied as given).
C8_PerYearTerms ==
    \A k \in 1..Len(rows) :
        LET y == inputs.starting_year + k - 1
        IN  /\ rows[k].year = y
            /\ rows[k].interest =
                  rows[k].begin_balance * inputs.investment_return_rate
            /\ rows[k].expenses = ItemSum(1..Len(schedule), y, y)
            /\ y \in DOMAIN contributions =>
                  rows[k].contributions = contributions[y]
            /\ y \notin DOMAIN contributions => rows[k].contributions = 0

\* A forecast with a missing contribution year after a present one, a
\* negative contribution, a year of two expenses and a year of none
C8_Witness ==
    /\ pc = "audit"
    /\ Len(rows) = inputs.forecast_years
    /\ inputs.investment_return_rate > 0
    /\ \E k \in 2..Len(rows) :
          /\ rows[k].year \notin DOMAIN contributions
          /\ rows[k - 1].year \in DOMAIN contributions
    /\ \E k \in 1..Len(rows) : rows[k].contributions < 0
    /\ \E k \in 1..Len(rows) :
          /\ Cardinality({j \in 1..Len(schedule) :
                            schedule[j].year = rows[k].year}) = 2
          /\ rows[k].expenses > 0
    /\ \E k \in 1..Len(rows) : rows[k].expenses = 0

\* C7: natively and in the Forecast formulas, percent_funded is empty
\* exactly when the fully funded balance of the year is 0 and coverage_5yr
\* is empty exactly when the expense sum of its window is 0; no division by
\* zero is performed.
C7_EmptyOnZeroDenominator ==
    /\ \A k \in 1..Len(expected_rows) :
          LET y == inputs.starting_year + k - 1
              e == expected_rows[k]
              fully_funded == FullyFundedBalance(components, inputs, y)
          IN  /\ ~DivByZero(fully_funded)
              /\ (e[9] = None) <=> (fully_funded[1] = 0)
              /\ (e[10] = None) <=>
                    (ItemSum(1..Len(schedule), y, Min(y + 4, EndYear(inputs))) = 0)
              /\ \A i \in 1..Len(e) : e[i] # None => ~DivByZero(e[i][1])
    /\ \A k \in 1..Len(sheet_rows) :
          LET y == inputs.starting_year + k - 1
              a == sheet_rows[k]
              fully_funded == FundingColumn(components, inputs, y).total
          IN  /\ ~DivByZero(fully_funded)
              /\ (a[9] = None) <=> (fully_funded[1] = 0)
              /\ (a[10] = None) <=>
                    (SheetItemSum(1..Len(schedule), y,
                                  Min(y + 4, EndYear(inputs))) = 0)
              /\ \A i \in 1..Len(a) : a[i] # None => ~DivByZero(a[i][1])

\* A finished sheet with an empty and a filled percent_funded and an empty
\* and a filled coverage_5yr, natively and in the formulas
C7_Witness ==
    /\ pc = "done"
    /\ \E k \in 1..Len(expected_rows) : expected_rows[k][9] = None
    /\ \E k \in 1..Len(expected_rows) : expected_rows[k][9] # None
    /\ \E k \in 1..Len(expected_rows) : expected_rows[k][10] = None
    /\ \E k \in 1..Len(expected_rows) : expected_rows[k][10] # None
    /\ \E k \in 1..Len(sheet_rows) : sheet_rows[k][9] = None
    /\ \E k \in 1..Len(sheet_rows) : sheet_rows[k][9] # None
    /\ \E k \in 1..Len(sheet_rows) : sheet_rows[k][10] = None
    /\ \E k \in 1..Len(sheet_rows) : sheet_rows[k][10] # None

\* The forecast year of a row of the Forecast sheet
YearOfRow(r) == inputs.starting_year + r - 2

\* C13: for every forecast year y the coverage_5yr denominator is the sum
\* of the expenses of the years y .. min(y + 4, last forecast year), and the
\* rows the emitted formula SUM(G{row}:INDEX(...)) sums are exactly the
\* forecast rows of that year window: nothing is lost or added at the end
\* of the horizon.
C13_CoverageWindow ==
    /\ \A k \in 1..Len(coverage_expected) :
          LET y == inputs.starting_year + k - 1
              e == coverage_expected[k]
          IN  /\ e.first_year = y
              /\ e.last_year = Min(y + 4, EndYear(inputs))
              /\ e.sum = ItemSum(1..Len(schedule), y, Min(y + 4, EndYear(inputs)))
    /\ \A k \in 1..Len(coverage_sheet) :
          LET f == coverage_sheet[k]
              e == coverage_expected[k]
          IN  /\ f.first_row = k + 1
              /\ f.last_row <= 1 + inputs.forecast_years
              /\ {YearOfRow(r) : r \in f.first_row..f.last_row}
                    = e.first_year..e.last_year
              /\ f.sum = e.sum

\* A horizon longer than the window, fully evaluated: a row whose window
\* has five years and ends before the horizon, the last row whose window is
\* one year, and an expense just outside a five-year window
C13_Witness ==
    /\ pc = "done"
    /\ inputs.forecast_years > 5
    /\ \E k \in 1..Len(coverage_sheet) :
          /\ coverage_sheet[k].last_row = coverage_sheet[k].first_row + 4
          /\ coverage_sheet[k].last_row < 1 + inputs.forecast_years
          /\ coverage_sheet[k].sum
                < ItemSum(1..Len(schedule), inputs.starting_year, EndYear(inputs))
          /\ coverage_sheet[k].sum > 0
    /\ coverage_sheet[Len(coverage_sheet)].first_row
          = coverage_sheet[Len(coverage_sheet)].last_row
    /\ coverage_expected[Len(coverage_expected)].first_year = EndYear(inputs)

\* The sum of a field over the first n native rows
RECURSIVE FieldSum(_, _)
FieldSum(field, n) ==
    IF n = 0 THEN 0 ELSE FieldSum(field, n - 1) + rows[n][field]

\* The sum of a column over the first n evaluated rows of the sheet
RECURSIVE SheetColumnSum(_, _)
SheetColumnSum(col, n) ==
    IF n = 0 THEN Zero ELSE QAdd(SheetColumnSum(col, n - 1), sheet_rows[n][col][1])

\* C29: after any prefix of forecast years, end_balance is
\* beginning_reserve_balance + the contributions so far + the interest so
\* far - the expenses so far, where the cumulative contributions and the
\* cumulative interest are the running sums of the expected values and of
\* the sheet's columns D and F, seeded at the first row.
C29_CumulativeBalance ==
    LET beginning == inputs.beginning_reserve_balance
    IN  /\ \A n \in 1..Len(rows) :
              rows[n].end_balance =
                  beginning + FieldSum("contributions", n)
                      + FieldSum("interest", n) - FieldSum("expenses", n)
        /\ \A n \in 1..Len(expected_rows) :
              /\ expected_rows[n][4] = Some(Q(FieldSum("contributions", n)))
              /\ expected_rows[n][6] = Some(Q(FieldSum("interest", n)))
              /\ QEq(expected_rows[n][8][1],
                     QSub(QAdd(QAdd(Q(beginning), expected_rows[n][4][1]),
                               expected_rows[n][6][1]),
                          Q(FieldSum("expenses", n))))
        /\ \A n \in 1..Len(sheet_rows) :
              /\ QEq(sheet_rows[n][4][1], SheetColumnSum(3, n))
              /\ QEq(sheet_rows[n][6][1], SheetColumnSum(5, n))
              /\ QEq(sheet_rows[n][8][1],
                     QSub(QAdd(QAdd(Q(beginning), sheet_rows[n][4][1]),
                               sheet_rows[n][6][1]),
                          SheetColumnSum(7, n)))

\* A finished forecast of several years in which the cumulative columns of
\* the last row differ from that row's own contribution and interest, with
\* an expense before it
C29_Witness ==
    /\ pc = "done"
    /\ Len(rows) = MaxYears
    /\ LET last == rows[Len(rows)]
           sheet_last == sheet_rows[Len(sheet_rows)]
       IN  /\ last.contributions # 0
           /\ last.interest # 0
           /\ FieldSum("contributions", Len(rows)) # last.contributions
           /\ FieldSum("interest", Len(rows)) # last.interest
           /\ FieldSum("expenses", Len(rows) - 1) > 0
           /\ ~QEq(sheet_last[4][1], sheet_last[3][1])
           /\ ~QEq(sheet_last[6][1], sheet_last[5][1])
           /\ last.end_balance # last.begin_balance

----------------------------------------------------------------------------
(* Claims about the inflation exponent *)

\* The offset, in half years, and the emitted term of a timing as the
\* configuration spells it
TimingOffset(timing) ==
    IF timing = "start_of_year" THEN 0
    ELSE IF timing \in {"mid_year", "Mid_Year", " mid_year "} THEN 1
    ELSE 2

TimingText(timing) ==
    IF TimingOffset(timing) = 0 THEN <<>>
    ELSE IF TimingOffset(timing) = 1 THEN <<"+", "0", ".", "5">>
    ELSE <<"+", "1">>

\* C21: with a component of cost c due in every year, the native schedule's
\* nominal expense, the native fully funded balance (through percent_funded),
\* the Schedule sheet's formula (through the expenses column) and the Funding
\* sheet's formula (through the sheet's percent_funded) all inflate c by the
\* exponent year - starting_year + timing_offset, where timing_offset is
\* 0 / 0.5 / 1 for start_of_year / mid_year / end_of_year, end_of_year when
\* the timing is not given, and the term emitted is '' / '+0.5' / '+1'
C21_SameExponentEverywhere ==
    pc = "done" =>
        LET offset == TimingOffset(inputs.spend_inflation_timing)
            cost == components[1].base_cost
            Inflated(y) ==
                cost * Pow(inputs.inflation_root,
                           2 * (y - inputs.starting_year) + offset)
        IN  /\ inputs.spend_inflation_offset = offset
            /\ FormatInflationOffset(inputs.spend_inflation_offset)
                  = TimingText(inputs.spend_inflation_timing)
            /\ LoadTiming(None).spend_inflation_offset = Some(2)
            /\ Len(schedule) = inputs.forecast_years
            /\ \A k \in 1..Len(schedule) :
                  schedule[k].nominal_expense = Inflated(schedule[k].year)
            /\ \A k \in 1..inputs.forecast_years :
                  LET y == inputs.starting_year + k - 1
                  IN  /\ NativeExponent(inputs, y)
                            = 2 * (y - inputs.starting_year) + offset
                      /\ FormulaExponent(inputs, y, inputs.starting_year)
                            = NativeExponent(inputs, y)
                      /\ expected_rows[k][9] # None
                      /\ QEq(expected_rows[k][9][1],
                             <<rows[k].begin_balance, Inflated(y)>>)
                      /\ sheet_rows[k][7] = Some(Q(Inflated(y)))
                      /\ sheet_rows[k][9] # None
                      /\ QEq(sheet_rows[k][9][1],
                             <<sheet_rows[k][2][1][1], Inflated(y)>>)

C21_Witness ==
    /\ pc = "done"
    /\ inputs.spend_inflation_timing = " mid_year "
    /\ inputs.forecast_years > 1
    /\ components[1].base_cost > 1
    /\ schedule[2].nominal_expense
          = components[1].base_cost * Pow(inputs.inflation_root, 3)
    /\ rows[2].begin_balance # 0

----------------------------------------------------------------------------
(* Claims about the audit columns *)

\* The rows of the Checks sheet that count the flags of a header
AuditCountRows(header) ==
    {k \in 1..Len(checks_sheet) :
        checks_sheet[k].label = "Audit flags: " \o header}

\* C22: with enable_audit on, the Forecast sheet has three times the base
\* columns, base column i (0-based, of N) has its expected value in column
\* N+1+2i and its flag formula, which compares column i+1 with column
\* N+1+2i, in column N+2+2i, and every 'Audit flags: <header>' count of the
\* Checks sheet (one per header when the checks are enabled) reads that
\* header's flag column; with enable_audit off the Forecast sheet has the
\* base columns only and the Checks sheet has no audit summary
C22_AuditColumns ==
    pc = "done" =>
        LET N0 == Len(FORECAST_HEADERS)
            headers == forecast_sheet.headers
        IN  /\ Len(forecast_sheet.rows) = inputs.forecast_years
            /\ SubSeq(headers, 1, N0) = FORECAST_HEADERS
            /\ IF inputs.enable_audit
               THEN /\ Len(headers) = 3 * N0
                    /\ \A i \in 0..(N0 - 1) :
                          /\ headers[N0 + 1 + 2 * i]
                                = FORECAST_HEADERS[i + 1] \o "_expected"
                          /\ headers[N0 + 2 + 2 * i]
                                = FORECAST_HEADERS[i + 1] \o "_audit"
                          /\ \A r \in 1..Len(forecast_sheet.rows) :
                                LET cells == forecast_sheet.rows[r]
                                IN  /\ DOMAIN cells = 1..(3 * N0)
                                    /\ cells[i + 1].kind = "base"
                                    /\ cells[N0 + 1 + 2 * i].kind = "expected"
                                    /\ cells[N0 + 1 + 2 * i].value_index = i
                                    /\ cells[N0 + 2 + 2 * i].kind = "flag"
                                    /\ ColumnNumber(cells[N0 + 2 + 2 * i].actual_ref)
                                          = i + 1
                                    /\ ColumnNumber(cells[N0 + 2 + 2 * i].expected_ref)
                                          = N0 + 1 + 2 * i
                          /\ Cardinality(AuditCountRows(FORECAST_HEADERS[i + 1]))
                                = IF inputs.enable_checks THEN 1 ELSE 0
                          /\ \A k \in AuditCountRows(FORECAST_HEADERS[i + 1]) :
                                ColumnNumber(checks_sheet[k].column) = N0 + 2 + 2 * i
               ELSE /\ headers = FORECAST_HEADERS
                    /\ \A r \in 1..Len(forecast_sheet.rows) :
                          /\ DOMAIN forecast_sheet.rows[r] = 1..N0
                          /\ \A col \in 1..N0 :
                                forecast_sheet.rows[r][col].kind = "base"
                    /\ \A k \in 1..Len(checks_sheet) :
                          /\ checks_sheet[k].label # "Audit summary"
                          /\ \A i \in 1..N0 : k \notin AuditCountRows(FORECAST_HEADERS[i])

C22_Witness ==
    /\ pc = "done"
    /\ inputs.enable_audit
    /\ inputs.enable_checks
    /\ inputs.forecast_years > 1
    /\ \E k \in AuditCountRows("coverage_5yr") :
          checks_sheet[k].column = <<"A", "D">>
    /\ forecast_sheet.rows[2][30].expected_ref = <<"A", "C">>

----------------------------------------------------------------------------
(* Claims about validation and the build *)

\* The messages with a given text
WithText(msgs, text) == {k \in 1..Len(msgs) : msgs[k].text = text}

\* C14: build_workbook saves a workbook only after validate_scenario has
\* returned without errors: with an error it raises ValidationError before
\* any schedule expansion, synthesis or save; with warnings only the
\* workbook is still produced.  So a call of build_workbook ends either
\* with ValidationError and nothing expanded or saved, or with the file
\* saved and no error.
C14_SavedOnlyAfterValidation ==
    pc = "raised" \/ saved =>
        \/ /\ raised = "ValidationError"
           /\ errors # <<>>
           /\ schedule = <<>>
           /\ ~saved
        \/ /\ raised = ""
           /\ errors = <<>>
           /\ saved

\* The number of events the components call for: per included component
\* one per occurrence year in the window
RECURSIVE EventCount(_)
EventCount(i) ==
    IF i = 0 THEN 0
    ELSE LET c == components[i]
             k == IntervalOrZero(c)
         IN  EventCount(i - 1) +
               (IF ~c.include THEN 0
                ELSE IF ~c.recurring
                THEN IF c.spend_year \in Window THEN 1 ELSE 0
                ELSE IF k <= 0 THEN 0
                ELSE Cardinality({y \in Window :
                        y >= c.spend_year /\ (y - c.spend_year) % k = 0}))

ScheduleRowsText == "Schedule rows exceed max_schedule_rows"

\* C15: with schedule expansion enabled and no other validation error,
\* validate_scenario reports 'Schedule rows N exceed max_schedule_rows M'
\* exactly when the number N of expanded events is greater than M (N = M
\* is accepted), so every schedule row of a scenario that validates lies
\* in the rows 2 .. 1 + M the Forecast SUMIFS formula covers.
C15_ScheduleCapacity ==
    (/\ pc = "validated"
     /\ inputs.enable_schedule_expansion
     /\ \A k \in 1..Len(errors) : errors[k].text = ScheduleRowsText) =>
        LET n == EventCount(Len(components))
            m == inputs.max_schedule_rows
        IN  /\ (WithText(errors, ScheduleRowsText) # {}) <=> (n > m)
            /\ \A k \in WithText(errors, ScheduleRowsText) :
                  errors[k].arg = <<n, m>>
            /\ errors = <<>> =>
                  /\ Len(schedule) = n
                  /\ \A r \in 2..(1 + Len(schedule)) : r \in 2..(1 + m)

\* A scenario whose schedule fills the grid exactly and validates
C15_Witness ==
    /\ pc = "validated"
    /\ inputs.enable_schedule_expansion
    /\ Len(schedule) = inputs.max_schedule_rows
    /\ Len(schedule) > 1
    /\ Len(components) > 1
    /\ errors = <<>>

\* The lines of components.csv that hold a data row (line 1 is the header)
DataLines == {k + 1 : k \in {j \in 1..Len(components_csv) : IsData(components_csv[j])}}

\* C16: a component list with more component rows than max_components_rows
\* is rejected by validation with an error: no scenario validates with a
\* component whose row lies beyond the Funding grid's rows
\* 2 .. 1 + max_components_rows.
C16_ComponentRowsWithinGrid ==
    pc = "validated" =>
        /\ Cardinality(DataLines) > inputs.max_components_rows => errors # <<>>
        /\ errors = <<>> =>
              \A i \in 1..Len(components) :
                  components[i].row_index \in FundingRows(inputs)

\* An error that names line n of components.csv with the given text
HasRowError(n, text) ==
    \E k \in 1..Len(errors) :
        /\ errors[k].file = "components.csv"
        /\ errors[k].row = n
        /\ errors[k].text = text

\* C17: validate_scenario reports an error for every non-filler component
\* row whose base_cost is blank ('base_cost is required'), non-numeric
\* ('base_cost must be a number'), <= 0 ('base_cost must be > 0') or
\* greater than 10000000 ('base_cost must be <= 10000000').
C17_BaseCostChecked ==
    pc = "validated" =>
        \A n \in DataLines :
            LET cost == components_csv[n - 1].base_cost
            IN  /\ cost.kind = "blank" => HasRowError(n, "base_cost is required")
                /\ cost.kind = "text" => HasRowError(n, "base_cost must be a number")
                /\ (cost.kind = "int" /\ cost.val <= 0) =>
                      HasRowError(n, "base_cost must be > 0")
                /\ (cost.kind = "int" /\ cost.val > 10000000) =>
                      HasRowError(n, "base_cost must be <= 10000000")

\* The rows of the contributions file whose year is an integer
EntryRows ==
    IF contributions_csv.exists
    THEN {k \in 1..Len(contributions_csv.rows) :
            contributions_csv.rows[k].year.kind = "int"}
    ELSE {}

\* The years that have an entry in the contributions file
EntryYears == {contributions_csv.rows[k].year.val : k \in EntryRows}

\* The file is there and every row of it parses
ContributionsFileReads ==
    /\ contributions_csv.exists
    /\ \A k \in 1..Len(contributions_csv.rows) :
          LET row == contributions_csv.rows[k]
          IN  /\ row.year.kind # "text"
              /\ row.year.kind = "int" => row.contribution.kind # "text"

MissingText == "Missing contributions for years"

OutsideText == "Contribution years outside forecast window"

\* The contribution the forecast applies in year y
ForecastContribution(y) ==
    ForecastRow(inputs, contributions, schedule_expenses, y, 0).contributions

DuplicateYears ==
    {y \in EntryYears :
        Cardinality({k \in EntryRows : contributions_csv.rows[k].year.val = y}) > 1}

\* The last row of the contributions file for year y
LastEntry(y) ==
    LET ks == {k \in EntryRows : contributions_csv.rows[k].year.val = y}
    IN  contributions_csv.rows[CHOOSE k \in ks : \A j \in ks : j <= k]

\* The data row in line n is well formed: flags Y or N, an integer spend
\* year, a cost in (0, 10000000], an interval that is blank or an integer
\* and positive on a recurring row
WellFormedRow(n) ==
    LET row == components_csv[n - 1]
    IN  /\ Upper(row.recurring) \in {"Y", "N"}
        /\ Upper(row.include) \in {"Y", "N"}
        /\ row.spend_year.kind = "int"
        /\ row.base_cost.kind = "int"
        /\ row.base_cost.val > 0
        /\ row.base_cost.val <= 10000000
        /\ row.interval_years.kind # "text"
        /\ Upper(row.recurring) = "Y" =>
              (row.interval_years.kind = "int" /\ row.interval_years.val > 0)

\* The scenario has nothing to report but, possibly, contribution years
\* outside the window, duplicate contribution years and spend years
\* outside the window
NoOtherFinding ==
    /\ \A n \in DataLines : WellFormedRow(n)
    /\ ContributionsFileReads
    /\ Window \subseteq EntryYears
    /\ inputs.enable_schedule_expansion =>
          EventCount(Len(components)) <= inputs.max_schedule_rows

DuplicateText == "Duplicate contribution years"

SpendYearText == "spend_year outside forecast window"

\* C19: contribution years outside the window, duplicate contribution
\* years and spend years outside the window each add a warning and never
\* an error: a scenario with no other finding validates with an empty
\* error list, each of the three is reported in the warnings exactly when
\* it occurs, and of the entries of a duplicated year the last one is used.
C19_WarningsOnly ==
    (pc = "validated" /\ NoOtherFinding) =>
        /\ errors = <<>>
        /\ Len(components) = Cardinality(DataLines)
        /\ (EntryYears \ Window # {}) <=> (WithText(warnings, OutsideText) # {})
        /\ \A k \in WithText(warnings, OutsideText) :
              warnings[k].arg = Sorted(EntryYears \ Window)
        /\ (DuplicateYears # {}) <=> (WithText(warnings, DuplicateText) # {})
        /\ \A k \in WithText(warnings, DuplicateText) :
              warnings[k].arg = Sorted(DuplicateYears)
        /\ \A n \in DataLines :
              (components_csv[n - 1].spend_year.val \notin Window) <=>
                  (\E k \in WithText(warnings, SpendYearText) :
                      /\ warnings[k].row = n
                      /\ warnings[k].arg = <<components_csv[n - 1].spend_year.val>>)
        /\ DOMAIN contributions = EntryYears
        /\ \A y \in EntryYears :
              contributions[y] = OrZero(LastEntry(y).contribution).val

\* A scenario that validates with all three warnings, the duplicated year
\* carrying two different amounts and a spend year before the window
C19_Witness ==
    /\ pc = "validated"
    /\ NoOtherFinding
    /\ WithText(warnings, OutsideText) # {}
    /\ WithText(warnings, DuplicateText) # {}
    /\ \E k \in WithText(warnings, SpendYearText) :
          warnings[k].arg[1] < inputs.starting_year
    /\ \E y \in DuplicateYears :
          \E k \in EntryRows :
              /\ contributions_csv.rows[k].year.val = y
              /\ contributions_csv.rows[k].contribution # LastEntry(y).contribution
    /\ errors = <<>>

\* The data row in line n is well formed but for its interval_years,
\* which is not looked at
WellFormedButInterval(n) ==
    LET row == components_csv[n - 1]
    IN  /\ Upper(row.recurring) \in {"Y", "N"}
        /\ Upper(row.include) \in {"Y", "N"}
        /\ row.spend_year.kind = "int"
        /\ row.base_cost.kind = "int"
        /\ row.base_cost.val > 0
        /\ row.base_cost.val <= 10000000

\* C20: for a component row with recurring = N the interval_years field is
\* never referenced: whatever it holds (blank, an integer, text such as
\* 'N/A'), validate_scenario reports no error because of it and the
\* returned component has interval_years = None.
C20_NonRecurringIntervalIgnored ==
    (/\ pc = "validated"
     /\ \A n \in DataLines :
           /\ Upper(components_csv[n - 1].recurring) = "N"
           /\ WellFormedButInterval(n)
     /\ ContributionsFileReads
     /\ Window \subseteq EntryYears
     /\ Cardinality(DataLines) <= inputs.max_schedule_rows) =>
        /\ errors = <<>>
        /\ Len(components) = Cardinality(DataLines)
        /\ \A i \in 1..Len(components) : components[i].interval_years = None

\* C24: when validate_scenario returns without errors, every returned
\* component with recurring = true has an integer interval_years > 0; a
\* recurring row whose interval is blank, not an integer, zero or negative
\* is reported as an error of its line
C24_RecurringIntervalPositive ==
    pc = "validated" =>
        /\ errors = <<>> =>
              \A i \in 1..Len(components) :
                  components[i].recurring =>
                      /\ components[i].interval_years # None
                      /\ components[i].interval_years[1] > 0
        /\ \A n \in DataLines :
              LET row == components_csv[n - 1]
              IN  Upper(row.recurring) = "Y" =>
                      /\ row.interval_years.kind = "blank" =>
                            HasRowError(n, "interval_years required for recurring items")
                      /\ row.interval_years.kind = "text" =>
                            HasRowError(n, "interval_years must be an integer")
                      /\ (row.interval_years.kind = "int"
                            /\ row.interval_years.val <= 0) =>
                            HasRowError(n, "interval_years must be > 0")

\* A file that validates and loads with two recurring components, one of
\* them written with a lower-case flag
C24_Witness ==
    /\ pc = "validated"
    /\ errors = <<>>
    /\ Len(components) = 2
    /\ \A i \in 1..2 : components[i].recurring
    /\ \E n \in DataLines : components_csv[n - 1].recurring = "y"

----------------------------------------------------------------------------
(* Claims about the audit flags *)

\* A cell read as a number: an empty cell counts as 0
CellNumber(cell) == IF cell = None THEN Q(0) ELSE cell[1]

\* C6: for every forecast row and base column, whatever the actual and the
\* expected value are (an empty value on either side included), the audit
\* cell shows FAIL exactly when |actual - expected| exceeds the tolerance of
\* the column's kind: 0 for year, audit_tolerance_ratio for percent_funded
\* and coverage_5yr, audit_tolerance_amount for the others.
C6_FailIffExceedsTolerance ==
    \A k \in 1..Len(flags) :
        \A i \in 1..Len(FORECAST_HEADERS) :
            (flags[k][i] = "FAIL") <=>
                QGt(QAbs(QSub(CellNumber(sheet_rows[k][i]),
                              CellNumber(expected_rows[k][i]))),
                    Tolerance(inputs, FORECAST_HEADERS[i]))

====
